---- MODULE Spec2Model ----
(***************************************************************************)
(* A model of the DynamicModel data-access layer of dynamic-orm.           *)
(*                                                                         *)
(* The repository holds three revisions of the class:                      *)
(*   RevA  src/src/DynamicModel.ts  (console logging, join-then-split)     *)
(*   RevB  src/unnamed/part_005     (Logger, cache calls wrapped in        *)
(*                                   try/catch, batch-fetch-then-merge)    *)
(*   RevC  src/unnamed/part_000     (compiled; as RevA in every call it    *)
(*                                   makes, its _processRelatedData only   *)
(*                                   sets empty relation containers)       *)
(* The revision and the useCache option are fixed at construction (Init).  *)
(* The operations run on RevA and RevB; RevC differs from RevA in the      *)
(* reassembly only and is covered where the reassembly is checked alone.   *)
(*                                                                         *)
(* Every public operation is an async function.  It is modelled as a       *)
(* process whose pc names the call it awaits (a cache call or a backend    *)
(* statement); one action performs that call against the cache or the      *)
(* backend and runs the handler on to its next await or to its return.     *)
(* The storage backend and the cache are external collaborators: the       *)
(* backend is a table of rows executing the statements it is handed, the   *)
(* cache a key/value store whose entries may expire; any call to either    *)
(* may fail.                                                               *)
(***************************************************************************)
EXTENDS Integers, Sequences, FiniteSets, TLC

\* ------------------------------------------------------------------ bounds
MaxId == 1        \* primary keys are 1..MaxId; 0 stands for a falsy id
MaxTxOps == 1     \* statements one transaction callback may issue
MaxCached == 2    \* entries the cache holds at once
MaxFaults == 1    \* calls to the backend or the cache that fail in one history

\* --------------------------------------------------------------- constants
RevA == "DynamicModel.ts"
RevB == "part_005"
RevC == "part_000"
Table == "users"
PrimaryKey == "id"
Ids == 1 .. MaxId
Names == {"a", "b"}
Callers == {1}       \* the callers of the sequential specification
AllProcs == {1}

\* JavaScript values whose type the code inspects are tagged.
Null == [ty |-> "null"]
Undef == [ty |-> "undefined"]
Obj(r) == [ty |-> "object", v |-> r]
Arr(s) == [ty |-> "array", v |-> s]
Str(s) == [ty |-> "string", v |-> s]
Num(n) == [ty |-> "number", v |-> n]
\* !x of JavaScript
Falsy(x) ==
  \/ x.ty \in {"null", "undefined"}
  \/ x.ty = "number" /\ x.v = 0
  \/ x.ty = "string" /\ x.v = ""
  \/ x.ty = "boolean" /\ x.v = FALSE
NoError == [type |-> "none", at |-> 0]

VARIABLES
  revision,   \* which revision of DynamicModel runs
  useCache,   \* options.useCache
  db,         \* the committed rows of the table: a set of [id, name]
  cache,      \* the cache: a function from the keys it holds to strings
  proc,       \* per caller: the operation in flight
  faults,     \* history: the number of backend and cache calls that failed
  expected,   \* history: what the writes so far promise a findById
  calc        \* a pure computation: its inputs and, once applied, its output

vars == <<revision, useCache, db, cache, proc, faults, expected, calc>>

\* ------------------------------------------------------- sequences of rows
RECURSIVE SortedRows(_)
\* the rows of a set in primary-key order (the order the backend returns)
SortedRows(S) ==
  IF S = {} THEN <<>>
  ELSE LET r == CHOOSE x \in S : \A y \in S : x.id.v <= y.id.v
       IN <<r>> \o SortedRows(S \ {r})

Range(s) == {s[i] : i \in 1 .. Len(s)}

\* --------------------------------------------------- JavaScript objects
\* A plain object is the sequence of its <<key, value>> pairs in insertion
\* order (the order of Object.keys, Object.entries and JSON.stringify).
Has(o, k) == \E i \in 1 .. Len(o) : o[i][1] = k
Get(o, k) == o[CHOOSE i \in 1 .. Len(o) : o[i][1] = k][2]
Put(o, k, v) ==
  IF Has(o, k) THEN [i \in 1 .. Len(o) |-> IF o[i][1] = k THEN <<k, v>> ELSE o[i]]
  ELSE Append(o, <<k, v>>)
KeysOf(o) == [i \in 1 .. Len(o) |-> o[i][1]]
ValuesOf(o) == [i \in 1 .. Len(o) |-> o[i][2]]

RECURSIVE JoinStr(_, _)
\* Array.prototype.join on strings
JoinStr(s, sep) ==
  IF Len(s) = 0 THEN ""
  ELSE IF Len(s) = 1 THEN s[1]
  ELSE s[1] \o sep \o JoinStr(Tail(s), sep)

\* ------------------------------------------------------------------ JSON
RECURSIVE DropUndefined(_)
\* JSON.stringify leaves out the properties whose value is undefined
DropUndefined(o) ==
  IF Len(o) = 0 THEN <<>>
  ELSE IF o[1][2] = Undef THEN DropUndefined(Tail(o))
  ELSE <<o[1]>> \o DropUndefined(Tail(o))

\* JSON.stringify of an argument mapping: a string, kept as its content
JSONstringifyParams(o) == [json |-> DropUndefined(o)]
\* JSON.stringify / JSON.parse of a result (rows have no undefined values)
JsonRow(r) == [k \in {x \in DOMAIN r : r[x] # Undef} |-> r[k]]
JSONstringify(v) == [json |-> JsonRow(v)]
\* JSON.stringify of a findAll result
JSONstringifyResult(res) ==
  [json |-> [res EXCEPT !.data = [i \in 1 .. Len(@) |-> JsonRow(@[i])]]]
JSONparse(s) == s.json
\* Number.prototype.toString and parseInt on what it produced
NumToString(n) == [str |-> n]
ParseInt(s) == s.str

\* _buildCacheKey: `${table}:${operation}:${JSON.stringify(params)}`
BuildCacheKey(operation, params) ==
  [table |-> Table, operation |-> operation, args |-> JSONstringifyParams(params)]

\* _buildSelectClause
BuildSelectClause(fields) ==
  IF Falsy(fields) \/ (fields.ty = "array" /\ Len(fields.v) = 0) THEN "*"
  ELSE IF fields.ty = "string" THEN fields.v
  ELSE IF fields.ty = "array" THEN JoinStr(fields.v, ", ")
  ELSE "*"

\* ------------------------------------------------------------ the cache
\* cache.get: the string held under the key, or null
CacheGet(c, k) == IF k \in DOMAIN c THEN c[k] ELSE Null
\* cache.set(key, value, 'EX', ttl)
CacheSet(c, k, v) == [x \in DOMAIN c \cup {k} |-> IF x = k THEN v ELSE c[x]]
\* the cache after a set: a full cache evicts one entry to make room
Stored(c, k, v) ==
  IF k \in DOMAIN c \/ Cardinality(DOMAIN c) < MaxCached THEN {CacheSet(c, k, v)}
  ELSE {CacheSet([x \in DOMAIN c \ {e} |-> c[x]], k, v) : e \in DOMAIN c}
\* cache.del of a set of keys
CacheDel(c, ks) == [x \in DOMAIN c \ ks |-> c[x]]
\* cache.keys(pattern): the keys the pattern `${table}:*` matches
CacheKeys(c, pattern) == {k \in DOMAIN c : k.table \o ":*" = pattern}

\* ----------------------------------------------------------- statements
\* A statement is the record of the clauses its template interpolates plus
\* the parameter list handed to db.prepare.  A list joined by ', ' is kept
\* as the sequence of its items, a condition as the sequence of its tokens
\* (the WHERE clause is the conditions joined by AND), a LIMIT or OFFSET as
\* the number it interpolates.
Placeholders(n) == "(" \o JoinStr([i \in 1 .. n |-> "?"], ", ") \o ")"
\* the IN list of the batch fetch: recordIds.map(() => '?').join(',')
PlaceholdersTight(n) == "(" \o JoinStr([i \in 1 .. n |-> "?"], ",") \o ")"

\* the clauses of a SELECT, all empty
SelectStmt ==
  [verb |-> "SELECT", select |-> <<>>, table |-> "", alias |-> "", joins |-> <<>>,
   where |-> <<>>, groupBy |-> "", orderBy |-> <<>>, limit |-> Null,
   offset |-> Null, params |-> <<>>]

\* findById: SELECT ${selectClause} FROM ${table} WHERE ${primaryKey} = ?
FindByIdQuery(fields, id) ==
  [SelectStmt EXCEPT !.select = <<BuildSelectClause(fields)>>, !.table = Table,
                     !.where = << <<PrimaryKey, "=", "?">> >>, !.params = <<id>>]

\* findByField: SELECT ${selectClause} FROM ${table} WHERE ${field} = ? LIMIT 1
FindByFieldQuery(field, value, fields) ==
  [SelectStmt EXCEPT !.select = <<BuildSelectClause(fields)>>, !.table = Table,
                     !.where = << <<field, "=", "?">> >>, !.limit = Num(1),
                     !.params = <<value>>]

\* create: INSERT INTO ${table} (${keys}) VALUES (${placeholders}) [RETURNING *]
InsertQuery(data, returnRecord) ==
  [verb |-> "INSERT", table |-> Table, cols |-> JoinStr(KeysOf(data), ", "),
   values |-> Placeholders(Len(data)), returning |-> returnRecord,
   params |-> ValuesOf(data)]

\* update: UPDATE ${table} SET ${updates} WHERE ${primaryKey} = ? [RETURNING *]
UpdateQuery(id, data, returnRecord) ==
  [verb |-> "UPDATE", table |-> Table,
   set |-> JoinStr([i \in 1 .. Len(data) |-> data[i][1] \o " = ?"], ", "),
   where |-> << <<PrimaryKey, "=", "?">> >>, returning |-> returnRecord,
   params |-> ValuesOf(data) \o <<id>>]

\* delete: DELETE FROM ${table} WHERE ${primaryKey} = ?
DeleteQuery(id) ==
  [verb |-> "DELETE", table |-> Table,
   where |-> << <<PrimaryKey, "=", "?">> >>, params |-> <<id>>]

\* ---------------------------------------------------------- the backend
\* The storage backend is external.  It is modelled as the table of the
\* model, rows [id, name], and one related table, rows [id, user_id, title],
\* every value tagged like a JavaScript value.  It executes the statements
\* it is handed: it reads a column, a column list or a select item by
\* matching the text against the renderings it knows.
RelTable == "posts"
Columns == {"id", "name"}
RelColumns == {"id", "user_id", "title"}
ColumnLists == {<<"id">>, <<"name">>, <<"id", "name">>, <<"name", "id">>}
Aliases == {"t1", "t2", "t3"}
\* the rows of the related table: no operation of the model writes them;
\* where a second model of the ORM does, they are part of the state
FixedPosts == {[id |-> Num(1), user_id |-> Num(1), title |-> Str("p")]}
Posts == IF calc.fn = "shared" THEN calc.posts ELSE FixedPosts

KnownTable(t) == t \in {Table, RelTable}
ColumnsOf(t) == IF t = Table THEN Columns ELSE IF t = RelTable THEN RelColumns ELSE {}
TableRows(d, t) == IF t = Table THEN d ELSE IF t = RelTable THEN Posts ELSE {}
NullRow(t) == [c \in ColumnsOf(t) |-> Null]

\* the renderings of a column reference: bare or qualified by an alias
ColForms ==
  {[text |-> c, alias |-> "", col |-> c] : c \in Columns \cup RelColumns}
    \cup {[text |-> a \o "." \o c, alias |-> a, col |-> c] :
            a \in Aliases, c \in Columns \cup RelColumns}
\* the renderings of a select item
SelectForms ==
  {[text |-> "*", alias |-> "", col |-> "*", label |-> ""]}
    \cup {[text |-> a \o ".*", alias |-> a, col |-> "*", label |-> ""] : a \in Aliases}
    \cup {[text |-> f.text, alias |-> f.alias, col |-> f.col, label |-> f.col] :
            f \in ColForms}
    \cup {[text |-> f.text \o " AS \"" \o r \o "." \o f.col \o "\"", alias |-> f.alias,
           col |-> f.col, label |-> r \o "." \o f.col] :
            f \in {g \in ColForms : g.alias # ""}, r \in {RelTable, "p"}}
CountSelects ==
  {"COUNT(*) as count", "COUNT(*) as total",
   "COUNT(DISTINCT t1." \o PrimaryKey \o ") as total"}
JoinKinds == {"LEFT", "INNER"}

\* the aliases a SELECT binds, each to its table
Bound(st) ==
  [a \in {st.alias} \cup {st.joins[i][4] : i \in 1 .. Len(st.joins)} |->
     IF a = st.alias THEN st.table
     ELSE st.joins[CHOOSE i \in 1 .. Len(st.joins) : st.joins[i][4] = a][3]]

\* a column reference the statement can resolve
KnownCol(st, q) ==
  \E f \in ColForms :
    /\ f.text = q
    /\ IF f.alias = "" THEN f.col \in ColumnsOf(st.table)
       ELSE f.alias \in DOMAIN Bound(st) /\ f.col \in ColumnsOf(Bound(st)[f.alias])
ColOf(q) == CHOOSE f \in ColForms : f.text = q
\* its value in a joined tuple (a function from aliases to rows)
ValueOf(st, tuple, q) ==
  LET f == ColOf(q) IN tuple[IF f.alias = "" THEN st.alias ELSE f.alias][f.col]

ColsOf(str) == CHOOSE cs \in ColumnLists : JoinStr(cs, ", ") = str
IsColList(str) == \E cs \in ColumnLists : JoinStr(cs, ", ") = str

\* the number of parameters a condition binds
NPlace(cond) ==
  IF Len(cond) = 3 /\ cond[2] = "IN"
  THEN CHOOSE n \in 1 .. 4 : cond[3] \in {Placeholders(n), PlaceholdersTight(n)}
  ELSE Cardinality({i \in 1 .. Len(cond) : cond[i] = "?"})

\* a comparison of two values; NULL compares with nothing
Compare(op, x, y) ==
  IF x = Null \/ y = Null THEN FALSE
  ELSE IF op = "=" THEN x = y
  ELSE IF op = "!=" THEN x # y
  ELSE IF op = "LIKE" THEN
    x.ty = "string" /\ y.ty = "string" /\ y.v \in {x.v, "%" \o x.v \o "%"}
  ELSE IF x.ty # "number" \/ y.ty # "number" THEN FALSE
  ELSE IF op = ">" THEN x.v > y.v
  ELSE IF op = "<" THEN x.v < y.v
  ELSE IF op = ">=" THEN x.v >= y.v
  ELSE IF op = "<=" THEN x.v <= y.v
  ELSE FALSE

RECURSIVE EvalAny(_, _, _, _)
\* the disjunction ( c1 OR c2 ... ) of the search
EvalAny(st, toks, ps, tuple) ==
  IF Len(toks) < 3 THEN FALSE
  ELSE \/ Compare(toks[2], ValueOf(st, tuple, toks[1]), ps[1])
       \/ Len(toks) > 4 /\ EvalAny(st, SubSeq(toks, 5, Len(toks)), Tail(ps), tuple)

\* one condition on one joined tuple, given the parameters it binds
EvalCond(st, cond, ps, tuple) ==
  IF cond = <<"FALSE">> THEN FALSE
  ELSE IF cond[1] = "(" THEN EvalAny(st, SubSeq(cond, 2, Len(cond) - 1), ps, tuple)
  ELSE LET x == ValueOf(st, tuple, cond[1]) IN
    IF cond[2] = "IS" THEN IF Len(cond) = 3 THEN x = Null ELSE x # Null
    ELSE IF cond[2] = "IN" THEN \E i \in 1 .. Len(ps) : Compare("=", x, ps[i])
    ELSE Compare(cond[2], x, ps[1])

RECURSIVE EvalWhere(_, _, _, _)
\* the conjunction of the conditions, parameters bound in text order
EvalWhere(st, conds, ps, tuple) ==
  IF Len(conds) = 0 THEN TRUE
  ELSE LET n == NPlace(conds[1]) IN
    /\ EvalCond(st, conds[1], SubSeq(ps, 1, n), tuple)
    /\ EvalWhere(st, Tail(conds), SubSeq(ps, n + 1, Len(ps)), tuple)

\* the column references of a condition
CondCols(cond) ==
  IF cond = <<"FALSE">> THEN {}
  ELSE IF cond[1] = "(" THEN {cond[i] : i \in {j \in 2 .. Len(cond) - 1 : j % 4 = 2}}
  ELSE {cond[1]}

RECURSIVE JoinTuples(_, _, _, _)
\* FROM table alias JOIN ...: the joined tuples, one join after the other
JoinTuples(d, st, tuples, js) ==
  IF Len(js) = 0 THEN tuples
  ELSE LET j == js[1]
           rows(t) == {r \in TableRows(d, j[3]) :
                         Compare("=", ValueOf(st, t, j[6]), r[ColOf(j[8]).col])}
           ext(t) == IF rows(t) = {}
                     THEN IF j[1] = "LEFT" THEN {(j[4] :> NullRow(j[3])) @@ t} ELSE {}
                     ELSE {(j[4] :> r) @@ t : r \in rows(t)}
       IN JoinTuples(d, st, UNION {ext(t) : t \in tuples}, Tail(js))

\* the tuples the WHERE clause keeps
Matching(d, st) ==
  {t \in JoinTuples(d, st, {(st.alias :> r) : r \in TableRows(d, st.table)}, st.joins) :
     EvalWhere(st, st.where, st.params, t)}

\* GROUP BY t1.<primary key>: one tuple of each group (the backend's pick)
Grouped(st, tuples) ==
  IF st.groupBy = "" THEN tuples
  ELSE {t \in tuples :
          t = CHOOSE u \in tuples : u[st.alias][PrimaryKey] = t[st.alias][PrimaryKey]}

\* the position of a value in the backend's ordering
Rank(x) ==
  IF x = Null THEN 0
  ELSE IF x.ty = "number" THEN x.v + 1
  ELSE IF x.v = "a" THEN 1 ELSE IF x.v = "b" THEN 2 ELSE 3

RECURSIVE Before(_, _, _, _)
\* ORDER BY: whether tuple t comes before tuple u; ties fall to the primary key
Before(st, ob, t, u) ==
  IF Len(ob) = 0 THEN Rank(t[st.alias].id) <= Rank(u[st.alias].id)
  ELSE LET x == Rank(ValueOf(st, t, ob[1][1]))
           y == Rank(ValueOf(st, u, ob[1][1]))
       IN IF x = y THEN Before(st, Tail(ob), t, u)
          ELSE IF ob[1][2] = "DESC" THEN x > y ELSE x < y

RECURSIVE Ordered(_, _)
Ordered(st, S) ==
  IF S = {} THEN <<>>
  ELSE LET t == CHOOSE x \in S : \A y \in S : Before(st, st.orderBy, x, y)
       IN <<t>> \o Ordered(st, S \ {t})

\* LIMIT n OFFSET m
Window(st, s) ==
  LET from == IF st.offset = Null THEN 1 ELSE st.offset.v + 1
      to == IF st.limit = Null THEN Len(s)
            ELSE IF from + st.limit.v - 1 < Len(s) THEN from + st.limit.v - 1 ELSE Len(s)
  IN SubSeq(s, from, to)

\* the columns one select item yields from a tuple
ItemRow(st, tuple, item) ==
  IF IsColList(item) THEN [c \in Range(ColsOf(item)) |-> tuple[st.alias][c]]
  ELSE LET f == CHOOSE g \in SelectForms : g.text = item
           a == IF f.alias = "" THEN st.alias ELSE f.alias
       IN IF f.col = "*" THEN tuple[a] ELSE (f.label :> tuple[a][f.col])

RECURSIVE Project(_, _, _)
\* the row returned for a tuple; a later item overrides an equal label
Project(st, tuple, items) ==
  IF Len(items) = 0 THEN <<>>
  ELSE Project(st, tuple, Tail(items))
         @@ ItemRow(st, tuple, items[1])

\* a select item the statement can resolve
KnownItem(st, item) ==
  \/ IsColList(item) /\ Range(ColsOf(item)) \subseteq ColumnsOf(st.table)
  \/ item \in CountSelects
  \/ \E f \in SelectForms :
       /\ f.text = item
       /\ IF f.col = "*" THEN f.alias \in {"", st.alias} \cup DOMAIN Bound(st)
          ELSE KnownCol(st, IF f.alias = "" THEN f.col ELSE f.alias \o "." \o f.col)

WriteResult(n) == <<[affectedRows |-> n]>>
\* a write seen as the SELECT of the rows it touches
AsSelect(st) ==
  [SelectStmt EXCEPT !.table = st.table, !.where = st.where, !.params = st.params]
\* the columns an UPDATE sets, in text order
SetColsOf(str) ==
  CHOOSE cs \in ColumnLists :
    JoinStr([i \in 1 .. Len(cs) |-> cs[i] \o " = ?"], ", ") = str
\* the rows an UPDATE touches and what they become
UpdateHit(d, st) ==
  LET n == Len(SetColsOf(st.set))
      w == [AsSelect(st) EXCEPT !.params = SubSeq(st.params, n + 1, Len(st.params))]
  IN {t[""] : t \in Matching(d, w)}
Updated(st, r) ==
  LET cs == SetColsOf(st.set)
  IN [c \in DOMAIN r |->
        IF \E i \in 1 .. Len(cs) : cs[i] = c
        THEN st.params[CHOOSE i \in 1 .. Len(cs) : cs[i] = c] ELSE r[c]]

\* the row an INSERT stores
InsertedRow(st) ==
  LET cs == ColsOf(st.cols)
      at(c) == IF \E i \in 1 .. Len(cs) : cs[i] = c
               THEN st.params[CHOOSE i \in 1 .. Len(cs) : cs[i] = c] ELSE Null
  IN [id |-> at("id"), name |-> at("name")]

\* a statement the backend refuses by itself: a duplicate primary key, an
\* unknown table, join or column
Refused(d, st) ==
  IF st.verb = "INSERT" THEN \E r \in d : r.id = InsertedRow(st).id
  ELSE IF st.verb # "SELECT" THEN FALSE
  ELSE \/ ~KnownTable(st.table)
       \/ \E i \in 1 .. Len(st.joins) :
            \/ st.joins[i][1] \notin JoinKinds
            \/ ~KnownTable(st.joins[i][3])
       \/ \E i \in 1 .. Len(st.joins) :
            ~KnownCol(st, st.joins[i][6]) \/ ~KnownCol(st, st.joins[i][8])
       \/ \E i \in 1 .. Len(st.where) : \E q \in CondCols(st.where[i]) : ~KnownCol(st, q)
       \/ \E i \in 1 .. Len(st.orderBy) : ~KnownCol(st, st.orderBy[i][1])
       \/ \E i \in 1 .. Len(st.select) : ~KnownItem(st, st.select[i])

\* the table after the statement
ExecDb(d, st) ==
  IF st.verb = "INSERT" THEN d \cup {InsertedRow(st)}
  ELSE IF st.verb = "UPDATE" THEN
    (d \ UpdateHit(d, st)) \cup {Updated(st, r) : r \in UpdateHit(d, st)}
  ELSE IF st.verb = "DELETE" THEN d \ {t[""] : t \in Matching(d, AsSelect(st))}
  ELSE d

\* the rows the statement returns
ExecRows(d, st) ==
  IF st.verb = "SELECT" THEN
    IF st.select = <<"COUNT(*) as count">>
    THEN <<[count |-> Num(Cardinality(Matching(d, st)))]>>
    ELSE IF st.select = <<"COUNT(*) as total">>
    THEN <<[total |-> Num(Cardinality(Matching(d, st)))]>>
    ELSE IF Len(st.select) = 1 /\ st.select[1] \in CountSelects
    THEN <<[total |-> Num(Cardinality({t[st.alias].id : t \in Matching(d, st)} \ {Null}))]>>
    ELSE LET cut == Window(st, Ordered(st, Grouped(st, Matching(d, st))))
         IN [i \in 1 .. Len(cut) |-> Project(st, cut[i], st.select)]
  ELSE IF st.verb = "INSERT" THEN
    IF st.returning THEN <<InsertedRow(st)>> ELSE WriteResult(1)
  ELSE IF st.verb = "UPDATE" THEN
    IF st.returning THEN SortedRows({Updated(st, r) : r \in UpdateHit(d, st)})
    ELSE WriteResult(Cardinality(UpdateHit(d, st)))
  ELSE IF st.verb = "DELETE" THEN
    WriteResult(Cardinality(Matching(d, AsSelect(st))))
  ELSE <<>>

\* ------------------------------------------------------- operation state
NoKey == [table |-> "", operation |-> "", args |-> [json |-> <<>>]]
NoTmp ==
  [parent |-> "none",     \* the operation that awaits this findById
   call |-> [id |-> Undef, fields |-> Undef],   \* the arguments of that findById
   record |-> Null,       \* the record read / the value to return
   del1 |-> "none",       \* the cache.del(findById key) of Promise.all
   inv |-> "none",        \* invalidateTableCache: keys, del, done
   listed |-> {},         \* the keys cache.keys returned
   total |-> 0,           \* findAll: the total the COUNT statement gave
   rows |-> <<>>,         \* findAll: the rows of the DATA statement
   relIdx |-> 0,          \* findAll: the relation whose batch fetch is awaited
   relData |-> <<>>,      \* findAll: relationData
   txdb |-> {},           \* withTransaction: the rows the transaction sees
   n |-> 0,               \* withTransaction: the statements the callback issued
   wrote |-> FALSE]       \* withTransaction: whether one of them was a write
NoCalc == [fn |-> "none"]
IdleProc ==
  [kind |-> "idle", pc |-> "idle", a |-> <<>>, key |-> NoKey, log |-> <<>>,
   outcome |-> "none", result |-> Null, error |-> NoError, t |-> NoTmp]

\* a call may start; a history is followed up to the end of the first
\* operation that met a failure
Free(p) == proc[p].pc = "idle" /\ faults = 0
\* whether a call succeeds: it may fail while the history's faults allow
Outcomes == IF faults < MaxFaults THEN BOOLEAN ELSE {TRUE}
Begin(kind, a) == [IdleProc EXCEPT !.kind = kind, !.a = a]
Log(pr, e) == [pr EXCEPT !.log = Append(@, e)]
Resolve(pr, v) == [pr EXCEPT !.pc = "done", !.outcome = "resolved", !.result = v]
Reject(pr, e) == [pr EXCEPT !.pc = "done", !.outcome = "rejected", !.error = e]
\* the error raised by the call that the next log entry records
DbError(pr) == [type |-> "db", at |-> Len(pr.log) + 1]
CacheError(pr) == [type |-> "cache", at |-> Len(pr.log) + 1]
ValidationError == [type |-> "validation", at |-> 0]

\* the backend runs a statement: it fails when told to or when it refuses
DbOk(ok, st) == ok /\ ~Refused(db, st)

\* a cache or backend call of an operation, as its log records it
EvGet(k, ok, cached) ==
  [ev |-> "cache.get", key |-> k, ok |-> ok, result |-> IF ok THEN cached ELSE Null]
EvSet(k, v, ok) == [ev |-> "cache.set", key |-> k, value |-> v, ok |-> ok]
EvDel(ks, ok) == [ev |-> "cache.del", keys |-> ks, ok |-> ok]
EvKeys(pattern, ok, keys) ==
  [ev |-> "cache.keys", pattern |-> pattern, ok |-> ok, result |-> IF ok THEN keys ELSE {}]
EvDb(st, ok) == [ev |-> "db", stmt |-> st, ok |-> ok]

\* ------------------------------------------------------------- findById
\* the end of findById: to its caller, or into the delete that awaits it
FindByIdReturn(pr, v) ==
  IF pr.t.parent = "delete"
  THEN IF v = Null THEN Resolve(pr, Null)
       ELSE [pr EXCEPT !.pc = "del_query", !.t.record = v]
  ELSE Resolve(pr, v)

\* findById up to its first await
FindByIdEnter(pr, id, fields) ==
  IF Falsy(id) THEN FindByIdReturn(pr, Null)
  ELSE [pr EXCEPT
          !.t.call = [id |-> id, fields |-> fields],
          !.key = BuildCacheKey("findById", <<<<"id", id>>, <<"fields", fields>>>>),
          !.pc = IF useCache THEN "fbi_get" ELSE "fbi_query"]

\* a faulty variant of findById after cache.get: the entry found is not
\* used, the backend is read every time
FindByIdAfterGetIgnoringHit(pr, ok, cached) ==
  LET pr1 == Log(pr, EvGet(pr.key, ok, cached))
  IN IF ~ok /\ revision = RevA THEN Reject(pr1, CacheError(pr))
     ELSE [pr1 EXCEPT !.pc = "fbi_query"]

\* after cache.get: a hit returns the parsed entry, a miss goes to the backend
FindByIdAfterGet(pr, ok, cached) ==
  LET pr1 == Log(pr, EvGet(pr.key, ok, cached))
  IN IF ~ok THEN IF revision = RevA THEN Reject(pr1, CacheError(pr))
                 ELSE [pr1 EXCEPT !.pc = "fbi_query"]
     ELSE IF cached # Null THEN FindByIdReturn(pr1, JSONparse(cached))
     ELSE [pr1 EXCEPT !.pc = "fbi_query"]

\* after the SELECT: the first row or null; a record is written to the cache
FindByIdAfterQuery(pr, ok, results) ==
  LET pr1 == Log(pr, EvDb(FindByIdQuery(pr.t.call.fields, pr.t.call.id), ok))
      record == IF Len(results) > 0 THEN results[1] ELSE Null
  IN IF ~ok THEN Reject(pr1, DbError(pr))
     ELSE IF useCache /\ record # Null
          THEN [pr1 EXCEPT !.pc = "fbi_set", !.t.record = record]
     ELSE FindByIdReturn(pr1, record)

\* after cache.set
FindByIdAfterSet(pr, ok) ==
  LET pr1 == Log(pr, EvSet(pr.key, JSONstringify(pr.t.record), ok))
  IN IF ~ok /\ revision = RevA THEN Reject(pr1, CacheError(pr))
     ELSE FindByIdReturn(pr1, pr.t.record)

FindByIdArgs == {[id |-> Num(i), fields |-> Undef] : i \in 0 .. MaxId}

CallFindById(p) ==
  /\ Free(p)
  /\ \E a \in FindByIdArgs :
       proc' = [proc EXCEPT ![p] = FindByIdEnter(Begin("findById", a), a.id, a.fields)]
  /\ UNCHANGED <<calc, revision, useCache, db, cache, faults, expected>>

FindByIdCacheGet(p) ==
  /\ proc[p].pc = "fbi_get"
  /\ \E ok \in Outcomes :
       /\ proc' = [proc EXCEPT ![p] =
                     FindByIdAfterGet(proc[p], ok, CacheGet(cache, proc[p].key))]
       /\ faults' = faults + (IF ok THEN 0 ELSE 1)
  /\ UNCHANGED <<calc, revision, useCache, db, cache, expected>>

FindByIdQueryStep(p) ==
  /\ proc[p].pc = "fbi_query"
  /\ \E ok \in Outcomes :
       LET st == FindByIdQuery(proc[p].t.call.fields, proc[p].t.call.id)
       IN /\ proc' = [proc EXCEPT ![p] =
                        FindByIdAfterQuery(proc[p], ok, ExecRows(db, st))]
          /\ faults' = faults + (IF ok THEN 0 ELSE 1)
  /\ UNCHANGED <<calc, revision, useCache, db, cache, expected>>

FindByIdCacheSet(p) ==
  /\ proc[p].pc = "fbi_set"
  /\ \E ok \in Outcomes :
       /\ proc' = [proc EXCEPT ![p] = FindByIdAfterSet(proc[p], ok)]
       /\ cache' \in IF ok THEN Stored(cache, proc[p].key, JSONstringify(proc[p].t.record))
                     ELSE {cache}
       /\ faults' = faults + (IF ok THEN 0 ELSE 1)
  /\ UNCHANGED <<calc, revision, useCache, db, expected>>

\* ----------------------------------------------------------- findByField
\* findByField up to its first await (only RevA returns null for !field)
FindByFieldEnter(pr) ==
  IF revision = RevA /\ Falsy(pr.a.field) THEN Resolve(pr, Null)
  ELSE [pr EXCEPT
          !.key = BuildCacheKey("findByField",
                    <<<<"field", pr.a.field>>, <<"value", pr.a.value>>,
                      <<"fields", pr.a.fields>>>>),
          !.pc = IF useCache THEN "fbf_get" ELSE "fbf_query"]

FindByFieldAfterGet(pr, ok, cached) ==
  LET pr1 == Log(pr, EvGet(pr.key, ok, cached))
  IN IF ~ok THEN IF revision = RevA THEN Reject(pr1, CacheError(pr))
                 ELSE [pr1 EXCEPT !.pc = "fbf_query"]
     ELSE IF cached # Null THEN Resolve(pr1, JSONparse(cached))
     ELSE [pr1 EXCEPT !.pc = "fbf_query"]

FindByFieldAfterQuery(pr, ok, results) ==
  LET pr1 == Log(pr, EvDb(FindByFieldQuery(pr.a.field.v, pr.a.value, pr.a.fields), ok))
      record == IF Len(results) > 0 THEN results[1] ELSE Null
  IN IF ~ok THEN Reject(pr1, DbError(pr))
     ELSE IF useCache /\ record # Null
          THEN [pr1 EXCEPT !.pc = "fbf_set", !.t.record = record]
     ELSE Resolve(pr1, record)

FindByFieldAfterSet(pr, ok) ==
  LET pr1 == Log(pr, EvSet(pr.key, JSONstringify(pr.t.record), ok))
  IN IF ~ok /\ revision = RevA THEN Reject(pr1, CacheError(pr))
     ELSE Resolve(pr1, pr.t.record)

FindByFieldArgs ==
  {[field |-> Str(f), value |-> Str("a"), fields |-> Undef] : f \in {"name", ""}}

CallFindByField(p) ==
  /\ Free(p)
  /\ \E a \in FindByFieldArgs :
       proc' = [proc EXCEPT ![p] = FindByFieldEnter(Begin("findByField", a))]
  /\ UNCHANGED <<calc, revision, useCache, db, cache, faults, expected>>

FindByFieldCacheGet(p) ==
  /\ proc[p].pc = "fbf_get"
  /\ \E ok \in Outcomes :
       /\ proc' = [proc EXCEPT ![p] =
                     FindByFieldAfterGet(proc[p], ok, CacheGet(cache, proc[p].key))]
       /\ faults' = faults + (IF ok THEN 0 ELSE 1)
  /\ UNCHANGED <<calc, revision, useCache, db, cache, expected>>

FindByFieldQueryStep(p) ==
  /\ proc[p].pc = "fbf_query"
  /\ \E ok \in Outcomes :
       LET st == FindByFieldQuery(proc[p].a.field.v, proc[p].a.value, proc[p].a.fields)
           fine == ok /\ ~Refused(db, st)
       IN /\ proc' = [proc EXCEPT ![p] =
                        FindByFieldAfterQuery(proc[p], fine, ExecRows(db, st))]
          /\ faults' = faults + (IF ok THEN 0 ELSE 1)
  /\ UNCHANGED <<calc, revision, useCache, db, cache, expected>>

FindByFieldCacheSet(p) ==
  /\ proc[p].pc = "fbf_set"
  /\ \E ok \in Outcomes :
       /\ proc' = [proc EXCEPT ![p] = FindByFieldAfterSet(proc[p], ok)]
       /\ cache' \in IF ok THEN Stored(cache, proc[p].key, JSONstringify(proc[p].t.record))
                     ELSE {cache}
       /\ faults' = faults + (IF ok THEN 0 ELSE 1)
  /\ UNCHANGED <<calc, revision, useCache, db, expected>>

\* ------------------------------------------------------------------ count
\* the switch of count: no case for ilike
CountSqlOp(op) ==
  CASE op = "gt" -> ">" [] op = "lt" -> "<" [] op = "gte" -> ">="
    [] op = "lte" -> "<=" [] op = "ne" -> "!=" [] op = "like" -> "LIKE"
    [] OTHER -> "="

\* the conditions and parameters of one filter entry of count
CountEntry(key, value) ==
  IF value = Null THEN [conds |-> << <<key, "IS", "NULL">> >>, params |-> <<>>]
  ELSE IF value.ty = "array" THEN
    IF Len(value.v) = 0 THEN [conds |-> << <<"FALSE">> >>, params |-> <<>>]
    ELSE [conds |-> << <<key, "IN", Placeholders(Len(value.v))>> >>, params |-> value.v]
  ELSE IF value.ty = "object" THEN
    [conds |-> [i \in 1 .. Len(value.v) |-> <<key, CountSqlOp(value.v[i][1]), "?">>],
     params |-> ValuesOf(value.v)]
  ELSE [conds |-> << <<key, "=", "?">> >>, params |-> <<value>>]

RECURSIVE CountWhere(_)
\* for (const [key, value] of Object.entries(filters))
CountWhere(filters) ==
  IF Len(filters) = 0 THEN [conds |-> <<>>, params |-> <<>>]
  ELSE LET e == CountEntry(filters[1][1], filters[1][2])
           r == CountWhere(Tail(filters))
       IN [conds |-> e.conds \o r.conds, params |-> e.params \o r.params]

\* SELECT COUNT(*) as count FROM ${table} ${whereClause}
CountQuery(filters) ==
  [SelectStmt EXCEPT !.select = <<"COUNT(*) as count">>, !.table = Table,
                     !.where = CountWhere(filters).conds,
                     !.params = CountWhere(filters).params]

CountEnter(pr) ==
  [pr EXCEPT !.key = BuildCacheKey("count", <<<<"filters", Obj(pr.a.filters)>>>>),
             !.pc = IF useCache THEN "cnt_get" ELSE "cnt_query"]

CountAfterGet(pr, ok, cached) ==
  LET pr1 == Log(pr, EvGet(pr.key, ok, cached))
  IN IF ~ok THEN IF revision = RevA THEN Reject(pr1, CacheError(pr))
                 ELSE [pr1 EXCEPT !.pc = "cnt_query"]
     ELSE IF cached # Null THEN Resolve(pr1, Num(ParseInt(cached)))
     ELSE [pr1 EXCEPT !.pc = "cnt_query"]

CountAfterQuery(pr, ok, results) ==
  LET pr1 == Log(pr, EvDb(CountQuery(pr.a.filters), ok))
  IN IF ~ok THEN Reject(pr1, DbError(pr))
     ELSE IF useCache THEN [pr1 EXCEPT !.pc = "cnt_set", !.t.record = results[1].count]
     ELSE Resolve(pr1, results[1].count)

CountAfterSet(pr, ok) ==
  LET pr1 == Log(pr, EvSet(pr.key, NumToString(pr.t.record.v), ok))
  IN IF ~ok /\ revision = RevA THEN Reject(pr1, CacheError(pr))
     ELSE Resolve(pr1, pr.t.record)

CountFilters == {<<>>, <<<<"name", Str("a")>>>>}

CallCount(p) ==
  /\ Free(p)
  /\ \E f \in CountFilters :
       proc' = [proc EXCEPT ![p] = CountEnter(Begin("count", [filters |-> f]))]
  /\ UNCHANGED <<calc, revision, useCache, db, cache, faults, expected>>

CountCacheGet(p) ==
  /\ proc[p].pc = "cnt_get"
  /\ \E ok \in Outcomes :
       /\ proc' = [proc EXCEPT ![p] =
                     CountAfterGet(proc[p], ok, CacheGet(cache, proc[p].key))]
       /\ faults' = faults + (IF ok THEN 0 ELSE 1)
  /\ UNCHANGED <<calc, revision, useCache, db, cache, expected>>

CountQueryStep(p) ==
  /\ proc[p].pc = "cnt_query"
  /\ \E ok \in Outcomes :
       LET st == CountQuery(proc[p].a.filters)
       IN /\ proc' = [proc EXCEPT ![p] = CountAfterQuery(proc[p], ok, ExecRows(db, st))]
          /\ faults' = faults + (IF ok THEN 0 ELSE 1)
  /\ UNCHANGED <<calc, revision, useCache, db, cache, expected>>

CountCacheSet(p) ==
  /\ proc[p].pc = "cnt_set"
  /\ \E ok \in Outcomes :
       /\ proc' = [proc EXCEPT ![p] = CountAfterSet(proc[p], ok)]
       /\ cache' \in IF ok THEN Stored(cache, proc[p].key, NumToString(proc[p].t.record.v))
                     ELSE {cache}
       /\ faults' = faults + (IF ok THEN 0 ELSE 1)
  /\ UNCHANGED <<calc, revision, useCache, db, expected>>

\* ------------------------------------------------- findAll: the query
\* options.defaultLimit || 100, options.maxLimit || 1000, options.searchableFields
DefaultLimit == 100
MaxLimit == 1000
SearchableFields == <<"name">>
MainAlias == "t1"

QueryKeys == {"filters", "sort", "fields", "pagination", "search", "relations"}
\* o[k] of a plain object
GetOr(o, k) == IF Has(o, k) THEN Get(o, k) ELSE Undef
\* x || y
OrElse(x, y) == IF Falsy(x) THEN y ELSE x
\* typeof x === 'object' (null is told apart by !x)
IsObject(x) == x.ty \in {"object", "array", "null"}
\* String.prototype.toUpperCase on the join types
Upper(s) ==
  CASE s = "left" -> "LEFT" [] s = "inner" -> "INNER" [] s = "right" -> "RIGHT"
    [] s = "one" -> "ONE" [] s = "many" -> "MANY" [] OTHER -> s

\* a faulty variant of isLegacyCall: the keys of an object are not looked at
IsLegacyCallNonObjectOnly(options) == Falsy(options) \/ ~IsObject(options)

\* isLegacyCall: no options object, or none of the query keys in it
IsLegacyCall(options) ==
  \/ Falsy(options)
  \/ ~IsObject(options)
  \/ options.ty = "array"
  \/ ~\E i \in 1 .. Len(options.v) : options.v[i][1] \in QueryKeys

\* filters, sort, fields, pagination, search, relations of the call
Normalize(options) ==
  IF IsLegacyCall(options)
  THEN [legacy |-> TRUE, filters |-> options, sort |-> Null, fields |-> Null,
        pagination |-> Null, search |-> Null, relations |-> Null]
  ELSE [legacy |-> FALSE,
        filters |-> OrElse(GetOr(options.v, "filters"), Obj(<<>>)),
        sort |-> GetOr(options.v, "sort"),
        fields |-> GetOr(options.v, "fields"),
        pagination |-> GetOr(options.v, "pagination"),
        search |-> GetOr(options.v, "search"),
        relations |-> GetOr(options.v, "relations")]

\* the argument mapping of the cache key
FindAllKey(q) ==
  BuildCacheKey("findAll",
    <<<<"filters", q.filters>>, <<"sort", q.sort>>, <<"fields", q.fields>>,
      <<"pagination", q.pagination>>, <<"search", q.search>>,
      <<"relations", q.relations>>>>)

\* relations && Array.isArray(relations) && relations.length > 0
HasRelations(q) == q.relations.ty = "array" /\ Len(q.relations.v) > 0

\* the switch of findAll
FindAllSqlOp(op) ==
  CASE op = "gt" -> ">" [] op = "lt" -> "<" [] op = "gte" -> ">="
    [] op = "lte" -> "<=" [] op = "ne" -> "!=" [] op = "like" -> "LIKE"
    [] op = "ilike" -> "ILIKE" [] OTHER -> "="

\* one operator of an operator object
OpCond(col, op, val) ==
  IF val = Null /\ op = "ne" THEN <<col, "IS", "NOT", "NULL">>
  ELSE IF val = Null THEN <<col, "IS", "NULL">>
  ELSE <<col, FindAllSqlOp(op), "?">>

\* a faulty variant of the filter entry: an empty array adds no condition
FilterEntrySkippingEmpty(col, value) ==
  IF value = Null THEN [conds |-> << <<col, "IS", "NULL">> >>, params |-> <<>>]
  ELSE IF value.ty = "array" THEN
    IF Len(value.v) = 0 THEN [conds |-> <<>>, params |-> <<>>]
    ELSE [conds |-> << <<col, "IN", Placeholders(Len(value.v))>> >>, params |-> value.v]
  ELSE IF value.ty = "object" THEN
    [conds |-> [i \in 1 .. Len(value.v) |-> OpCond(col, value.v[i][1], value.v[i][2])],
     params |-> SelectSeq(ValuesOf(value.v), LAMBDA x : x # Null)]
  ELSE [conds |-> << <<col, "=", "?">> >>, params |-> <<value>>]

\* the conditions and parameters of one filter entry
FilterEntry(col, value) ==
  IF value = Null THEN [conds |-> << <<col, "IS", "NULL">> >>, params |-> <<>>]
  ELSE IF value.ty = "array" THEN
    IF Len(value.v) = 0 THEN [conds |-> << <<"FALSE">> >>, params |-> <<>>]
    ELSE [conds |-> << <<col, "IN", Placeholders(Len(value.v))>> >>, params |-> value.v]
  ELSE IF value.ty = "object" THEN
    [conds |-> [i \in 1 .. Len(value.v) |-> OpCond(col, value.v[i][1], value.v[i][2])],
     params |-> SelectSeq(ValuesOf(value.v), LAMBDA x : x # Null)]
  ELSE [conds |-> << <<col, "=", "?">> >>, params |-> <<value>>]

RECURSIVE FilterEntries(_, _)
\* for (const [key, value] of Object.entries(filters)), the columns resolved
FilterEntries(cols, values) ==
  IF Len(cols) = 0 THEN [conds |-> <<>>, params |-> <<>>]
  ELSE LET e == FilterEntry(cols[1], values[1])
           r == FilterEntries(Tail(cols), Tail(values))
       IN [conds |-> e.conds \o r.conds, params |-> e.params \o r.params]

\* the keys that hold a dot, split at the first one
DotForms ==
  {[text |-> t \o "." \o c, table |-> t, col |-> c] :
     t \in {Table, RelTable, "p"}, c \in Columns \cup RelColumns}
HasDot(k) == \E f \in DotForms : f.text = k
\* a faulty variant of the key resolution: tableAliases is not looked at
QualifyMainOnly(aliases, k) ==
  IF HasDot(k)
  THEN MainAlias \o "." \o (CHOOSE g \in DotForms : g.text = k).col
  ELSE MainAlias \o "." \o k

\* tableName.columnName resolved through tableAliases, else the main alias
Qualify(aliases, k) ==
  IF HasDot(k)
  THEN LET f == CHOOSE g \in DotForms : g.text = k
       IN (IF Has(aliases, f.table) THEN Get(aliases, f.table) ELSE MainAlias)
            \o "." \o f.col
  ELSE MainAlias \o "." \o k

\* one relation of the loop over relations
RelationStep(acc, rel) ==
  IF Falsy(GetOr(rel.v, "table")) \/ Falsy(GetOr(rel.v, "foreignKey")) THEN acc
  ELSE LET joinType == Upper(OrElse(GetOr(rel.v, "type"), Str("left")).v)
           relAlias == "t" \o ToString(acc.joinIndex)
           localKey == OrElse(GetOr(rel.v, "localKey"), Str(PrimaryKey)).v
           table == Get(rel.v, "table").v
           f == GetOr(rel.v, "filters")
           w == IF ~Falsy(f) /\ f.ty = "object"
                THEN FilterEntries([i \in 1 .. Len(f.v) |-> relAlias \o "." \o f.v[i][1]],
                                   ValuesOf(f.v))
                ELSE [conds |-> <<>>, params |-> <<>>]
       IN [joinIndex |-> acc.joinIndex + 1,
           aliases |-> Put(acc.aliases, table, relAlias),
           joins |-> Append(acc.joins,
                       <<joinType, "JOIN", table, relAlias, "ON",
                         MainAlias \o "." \o localKey, "=",
                         relAlias \o "." \o Get(rel.v, "foreignKey").v>>),
           conds |-> acc.conds \o w.conds,
           params |-> acc.params \o w.params]

RECURSIVE RelationLoop(_, _)
RelationLoop(acc, rels) ==
  IF Len(rels) = 0 THEN acc
  ELSE RelationLoop(RelationStep(acc, rels[1]), Tail(rels))

\* joins, aliases, relation conditions and parameters
Relations(q) ==
  LET start == [joinIndex |-> 2, aliases |-> <<<<Table, MainAlias>>>>, joins |-> <<>>,
                conds |-> <<>>, params |-> <<>>]
  IN IF HasRelations(q) THEN RelationLoop(start, q.relations.v) ELSE start

RECURSIVE SearchTokens(_, _)
\* searchConditions.join(' OR ')
SearchTokens(aliases, fs) ==
  IF Len(fs) = 0 THEN <<>>
  ELSE <<Qualify(aliases, fs[1]), "LIKE", "?">>
         \o (IF Len(fs) > 1 THEN <<"OR">> ELSE <<>>)
         \o SearchTokens(aliases, Tail(fs))

\* the search condition and its parameters
Search(q, aliases) ==
  IF ~Falsy(q.search) /\ Len(SearchableFields) > 0
  THEN [conds |-> << <<"(">> \o SearchTokens(aliases, SearchableFields) \o <<")">> >>,
        params |-> [i \in 1 .. Len(SearchableFields) |-> Str("%" \o q.search.v \o "%")]]
  ELSE [conds |-> <<>>, params |-> <<>>]

\* the conditions and parameters of the main table filters
MainFilters(q, aliases) ==
  IF ~Falsy(q.filters) /\ q.filters.ty = "object" /\ Len(q.filters.v) > 0
  THEN FilterEntries([i \in 1 .. Len(q.filters.v) |-> Qualify(aliases, q.filters.v[i][1])],
                     ValuesOf(q.filters.v))
  ELSE [conds |-> <<>>, params |-> <<>>]

\* field.split(', ') on a column list
SplitList(str) == IF IsColList(str) THEN ColsOf(str) ELSE <<str>>
\* relation.as || relation.table
AsOf(rel) == OrElse(OrElse(GetOr(rel.v, "as"), GetOr(rel.v, "table")), Str("undefined")).v

\* the select items one relation adds
RelationSelect(aliases, rel) ==
  IF Falsy(GetOr(rel.v, "table")) THEN <<>>
  ELSE LET table == Get(rel.v, "table").v
           relAlias == IF Has(aliases, table) THEN Get(aliases, table) ELSE "undefined"
           sel == OrElse(GetOr(rel.v, "select"), Str("*"))
           item(f) == relAlias \o "." \o f \o " AS \"" \o AsOf(rel) \o "." \o f \o "\""
       IN IF sel = Str("*") THEN <<relAlias \o ".*">>
          ELSE IF sel.ty = "array" THEN [i \in 1 .. Len(sel.v) |-> item(sel.v[i])]
          ELSE IF sel.ty = "string" THEN <<item(sel.v)>>
          ELSE <<>>

RECURSIVE RelationSelects(_, _)
RelationSelects(aliases, rels) ==
  IF Len(rels) = 0 THEN <<>>
  ELSE RelationSelect(aliases, rels[1]) \o RelationSelects(aliases, Tail(rels))

\* the select list, item by item
SelectFields(q, aliases) ==
  IF HasRelations(q) THEN
    (IF ~Falsy(q.fields)
     THEN IF q.fields.ty = "string" THEN <<MainAlias \o "." \o q.fields.v>>
          ELSE IF q.fields.ty = "array"
          THEN [i \in 1 .. Len(q.fields.v) |-> MainAlias \o "." \o q.fields.v[i]]
          ELSE <<>>
     ELSE <<MainAlias \o ".*">>)
      \o RelationSelects(aliases, q.relations.v)
  ELSE LET s == BuildSelectClause(q.fields)
       IN IF s # "*"
          THEN [i \in 1 .. Len(SplitList(s)) |-> MainAlias \o "." \o SplitList(s)[i]]
          ELSE <<MainAlias \o ".*">>

\* the names a sort may carry, and the ones written with a leading '-'
SortNames == Columns \cup RelColumns \cup {f.text : f \in DotForms}
StartsWithDash(s) == \E n \in SortNames : s = "-" \o n
Undash(s) == IF StartsWithDash(s) THEN CHOOSE n \in SortNames : s = "-" \o n ELSE s
\* one ORDER BY item: the qualified column and its direction
SortItem(aliases, s) ==
  <<Qualify(aliases, Undash(s)), IF StartsWithDash(s) THEN "DESC" ELSE "ASC">>
\* (direction || '').toString().toLowerCase() === 'desc'
IsDesc(d) == d.ty = "string" /\ d.v \in {"desc", "DESC", "Desc"}

\* the ORDER BY items
OrderBy(q, aliases) ==
  IF Falsy(q.sort) THEN <<>>
  ELSE IF q.sort.ty = "string" THEN <<SortItem(aliases, q.sort.v)>>
  ELSE IF q.sort.ty = "array"
  THEN [i \in 1 .. Len(q.sort.v) |-> SortItem(aliases, q.sort.v[i])]
  ELSE IF q.sort.ty = "object"
  THEN [i \in 1 .. Len(q.sort.v) |->
          <<Qualify(aliases, q.sort.v[i][1]),
            IF IsDesc(q.sort.v[i][2]) THEN "DESC" ELSE "ASC">>]
  ELSE <<>>

\* parseInt(x) || 1 on a number or a missing value
IntOrOne(x) == IF x.ty = "number" /\ x.v # 0 THEN x.v ELSE 1
Max(a, b) == IF a > b THEN a ELSE b
Min(a, b) == IF a < b THEN a ELSE b

\* options.defaultLimit || 100, options.maxLimit || 1000 of the constructor
ConfiguredLimit(option, fallback) == IF Falsy(option) THEN fallback ELSE option.v

\* page, limit and offset of a model configured with defaultLimit and
\* maxLimit; limit 0 when no pagination was supplied
PagingWith(q, defaultLimit, maxLimit) ==
  IF Falsy(q.pagination) THEN [page |-> 1, limit |-> 0, offset |-> 0]
  ELSE LET page == Max(1, IntOrOne(GetOr(q.pagination.v, "page")))
           lim == GetOr(q.pagination.v, "limit")
           limit == IF ~Falsy(lim) THEN Min(maxLimit, Max(1, lim.v)) ELSE defaultLimit
       IN [page |-> page, limit |-> limit, offset |-> (page - 1) * limit]

\* the same for the model of the specification, built without either option
Paging(q) == PagingWith(q, DefaultLimit, MaxLimit)

\* limitClause and offsetClause: LIMIT ${limit}, OFFSET ${offset}, or neither
LimitClause(q, pg) == IF Falsy(q.pagination) THEN Null ELSE Num(pg.limit)
OffsetClause(q, pg) == IF Falsy(q.pagination) THEN Null ELSE Num(pg.offset)

\* a faulty variant of the clauses: the parameters of the search are
\* appended after those of the main filters
ClausesSearchLast(q, r, s, m) ==
  [joins |-> r.joins,
   where |-> r.conds \o s.conds \o m.conds,
   params |-> r.params \o m.params \o s.params,
   groupBy |-> IF Len(r.joins) > 0 THEN "GROUP BY " \o MainAlias \o "." \o PrimaryKey
               ELSE "",
   select |-> SelectFields(q, r.aliases),
   orderBy |-> OrderBy(q, r.aliases),
   paging |-> Paging(q)]

\* every clause of the two statements of findAll, from the relations r,
\* the search s and the main filters m
Clauses(q, r, s, m) ==
  [joins |-> r.joins,
   where |-> r.conds \o s.conds \o m.conds,
   params |-> r.params \o s.params \o m.params,
   groupBy |-> IF Len(r.joins) > 0 THEN "GROUP BY " \o MainAlias \o "." \o PrimaryKey
               ELSE "",
   select |-> SelectFields(q, r.aliases),
   orderBy |-> OrderBy(q, r.aliases),
   paging |-> Paging(q)]
\* search and main filters are resolved through the aliases of the relations
ClausesAfterRelations(q, r) ==
  Clauses(q, r, Search(q, r.aliases), MainFilters(q, r.aliases))
Compile(q) == ClausesAfterRelations(q, Relations(q))

\* SELECT COUNT(*) / COUNT(DISTINCT t1.pk) as total  FROM ...  WHERE ...
CountStatement(c) ==
  [SelectStmt EXCEPT
     !.select = IF Len(c.joins) > 0
                THEN <<"COUNT(DISTINCT " \o MainAlias \o "." \o PrimaryKey \o ") as total">>
                ELSE <<"COUNT(*) as total">>,
     !.table = Table, !.alias = MainAlias, !.joins = c.joins,
     !.where = c.where, !.params = c.params]
FindAllCountQuery(q) == CountStatement(Compile(q))

\* SELECT fields FROM ... WHERE ... GROUP BY ... ORDER BY ... LIMIT ... OFFSET ...
DataStatement(q, c) ==
  [SelectStmt EXCEPT
     !.select = c.select, !.table = Table, !.alias = MainAlias, !.joins = c.joins,
     !.where = c.where, !.groupBy = c.groupBy, !.orderBy = c.orderBy,
     !.limit = LimitClause(q, c.paging), !.offset = OffsetClause(q, c.paging),
     !.params = c.params]
FindAllDataQuery(q) == DataStatement(q, Compile(q))

\* a faulty variant of Math.ceil: the quotient rounded down
FloorDiv(a, b) == a \div b

\* Math.ceil(total / limit)
CeilDiv(a, b) == (a + b - 1) \div b

\* the pagination block of the result
PaginationOf(total, page, limit, offset) ==
  [total |-> total, page |-> page,
   limit |-> IF limit # 0 THEN limit ELSE total,
   pages |-> IF limit # 0 THEN CeilDiv(total, limit) ELSE 1,
   hasNext |-> IF limit # 0 THEN offset + limit < total ELSE FALSE]

\* the result of findAll
BuildResult(q, data, total) ==
  LET pg == Paging(q)
  IN [data |-> data, pagination |-> PaginationOf(total, pg.page, pg.limit, pg.offset)]

\* ------------------------------------------- findAll: the reassembly
\* a nested object of a result row
Rec(f) == [ty |-> "record", v |-> f]
\* row[this.primaryKey]
RowId(row) == IF PrimaryKey \in DOMAIN row THEN row[PrimaryKey] ELSE Undef
IsMany(rel) == GetOr(rel.v, "type") = Str("many")

\* RevA _processRelatedData: one relation of one row, onto mainRecord
NestRelation(mainRecord, row, rel) ==
  LET as == AsOf(rel)
      sel == GetOr(rel.v, "select")
      empty == IF IsMany(rel) THEN Arr(<<>>) ELSE Null
  IN IF ~Falsy(sel) /\ sel.ty = "array" THEN
       LET present == {sel.v[i] : i \in {j \in 1 .. Len(sel.v) :
                                          (as \o "." \o sel.v[j]) \in DOMAIN row}}
           relObject == [f \in present |-> row[as \o "." \o f]]
           kept == [k \in DOMAIN mainRecord \ {as \o "." \o f : f \in present} |->
                      mainRecord[k]]
           value == IF present = {} THEN empty
                    ELSE IF IsMany(rel) THEN Arr(<<relObject>>)
                    ELSE IF Len(sel.v) = 1 THEN relObject[sel.v[1]]
                    ELSE Rec(relObject)
       IN (as :> value) @@ kept
     ELSE (as :> empty) @@ mainRecord

RECURSIVE NestRelations(_, _, _)
NestRelations(mainRecord, row, rels) ==
  IF Len(rels) = 0 THEN mainRecord
  ELSE NestRelations(NestRelation(mainRecord, row, rels[1]), row, Tail(rels))

RECURSIVE ProcessRows(_, _, _)
\* the loop over rawData; a row whose id was processed is skipped
ProcessRows(rows, rels, processedIds) ==
  IF Len(rows) = 0 THEN <<>>
  ELSE IF RowId(rows[1]) \in processedIds THEN ProcessRows(Tail(rows), rels, processedIds)
  ELSE <<NestRelations(rows[1], rows[1], rels)>>
         \o ProcessRows(Tail(rows), rels, processedIds \cup {RowId(rows[1])})

\* RevA _processRelatedData
ProcessRelatedData(rawData, rels) ==
  IF Len(rawData) = 0 THEN <<>> ELSE ProcessRows(rawData, rels, {})

\* RevB _processRelatedData: the ids of the records, nulls skipped
RecordIds(records) ==
  SelectSeq([i \in 1 .. Len(records) |-> RowId(records[i])],
            LAMBDA x : x # Undef /\ x # Null)
\* relation.foreignKey as a property name
ForeignKeyOf(rel) == OrElse(GetOr(rel.v, "foreignKey"), Str("undefined")).v
\* relation.table interpolated
TableOf(rel) == OrElse(GetOr(rel.v, "table"), Str("undefined")).v

\* RevB: SELECT ${selectClause} FROM ${table} WHERE ${foreignKey} IN (?,?)
BatchQuery(rel, recordIds) ==
  [SelectStmt EXCEPT
     !.select = <<BuildSelectClause(GetOr(rel.v, "select"))>>, !.table = TableOf(rel),
     !.where = << <<ForeignKeyOf(rel), "IN", PlaceholdersTight(Len(recordIds))>> >>,
     !.params = recordIds]

\* RevB: the container a relation starts from
EmptyOf(rel) == IF IsMany(rel) THEN Arr(<<>>) ELSE Rec(<<>>)
\* !relationData[recordId][as]
Unset(entry, as) == as \notin DOMAIN entry \/ Falsy(entry[as])

\* RevB: one related row merged into relationData
RelatedRow(relationData, row, rel) ==
  LET fk == ForeignKeyOf(rel)
      recordId == IF fk \in DOMAIN row THEN row[fk] ELSE Undef
      as == AsOf(rel)
      sel == GetOr(rel.v, "select")
  IN IF Falsy(recordId) \/ recordId \notin DOMAIN relationData THEN relationData
     ELSE LET entry == IF Unset(relationData[recordId], as)
                       THEN (as :> EmptyOf(rel)) @@ relationData[recordId]
                       ELSE relationData[recordId]
              fields == IF sel.ty = "array" THEN sel.v ELSE SplitList(sel.v)
              present == {f \in Range(fields) : f \in DOMAIN row}
              relObject == IF ~Falsy(sel) THEN [f \in present \cup {fk} |-> row[f]] ELSE row
              hasRelatedData == IF ~Falsy(sel) THEN present # {} ELSE DOMAIN row # {}
              value == IF IsMany(rel) THEN Arr(Append(entry[as].v, row))
                       ELSE IF ~hasRelatedData THEN Rec(<<>>)
                       ELSE IF sel.ty = "array" /\ Len(sel.v) = 1 THEN row[sel.v[1]]
                       ELSE Rec(relObject)
          IN [relationData EXCEPT ![recordId] = (as :> value) @@ entry]

RECURSIVE RelatedRows(_, _, _)
RelatedRows(relationData, rows, rel) ==
  IF Len(rows) = 0 THEN relationData
  ELSE RelatedRows(RelatedRow(relationData, rows[1], rel), Tail(rows), rel)

\* RevB: empty values for the records that got no related data
ApplyDefaults(relationData, rel) ==
  [id \in DOMAIN relationData |->
     IF Unset(relationData[id], AsOf(rel))
     THEN (AsOf(rel) :> EmptyOf(rel)) @@ relationData[id]
     ELSE relationData[id]]

\* RevB: Object.assign(record, relationData[recordId])
MergeRelationData(records, relationData) ==
  [i \in 1 .. Len(records) |->
     IF RowId(records[i]) \in DOMAIN relationData
     THEN relationData[RowId(records[i])] @@ records[i]
     ELSE records[i]]

\* ------------------------------------------------- findAll: the handler
QueryOf(pr) == Normalize(pr.a.options)
\* a faulty variant of findAll: the COUNT statement is never issued
DataStatementOnly(q) == "fa_data"

\* if (pagination || isLegacyCall): the COUNT statement comes first
FirstStatement(q) == IF ~Falsy(q.pagination) \/ q.legacy THEN "fa_count" ELSE "fa_data"

\* findAll up to its first await
FindAllEnter(pr) ==
  [pr EXCEPT !.key = FindAllKey(QueryOf(pr)),
             !.pc = IF useCache THEN "fa_get" ELSE FirstStatement(QueryOf(pr))]

\* a faulty variant of the cache read: an entry found is ignored
FindAllAfterGetIgnoringEntry(pr, ok, cached) ==
  [Log(pr, EvGet(pr.key, ok, cached)) EXCEPT !.pc = FirstStatement(QueryOf(pr))]

\* after cache.get
FindAllAfterGet(pr, ok, cached) ==
  LET pr1 == Log(pr, EvGet(pr.key, ok, cached))
  IN IF ~ok THEN IF revision = RevA THEN Reject(pr1, CacheError(pr))
                 ELSE [pr1 EXCEPT !.pc = FirstStatement(QueryOf(pr))]
     ELSE IF cached # Null THEN Resolve(pr1, JSONparse(cached))
     ELSE [pr1 EXCEPT !.pc = FirstStatement(QueryOf(pr))]

\* after the COUNT statement: total = parseInt(countResult.total)
FindAllAfterCount(pr, ok, rows) ==
  LET pr1 == Log(pr, EvDb(FindAllCountQuery(QueryOf(pr)), ok))
  IN IF ~ok THEN Reject(pr1, DbError(pr))
     ELSE [pr1 EXCEPT !.pc = "fa_data", !.t.total = rows[1].total.v]

\* the result is built, written to the cache and returned
FindAllFinish(pr, data) ==
  LET result == BuildResult(QueryOf(pr), data, pr.t.total)
  IN IF useCache THEN [pr EXCEPT !.pc = "fa_set", !.t.record = result]
     ELSE Resolve(pr, result)

\* RevB _processRelatedData: on to the batch fetch of relation idx, or out
NextRelation(pr, idx) ==
  IF idx > Len(QueryOf(pr).relations.v) \/ Len(RecordIds(pr.t.rows)) = 0
  THEN FindAllFinish(pr, MergeRelationData(pr.t.rows, pr.t.relData))
  ELSE [pr EXCEPT !.pc = "fa_rel", !.t.relIdx = idx]

\* after the DATA statement: the reassembly of the revision
FindAllAfterData(pr, ok, rawData) ==
  LET pr1 == Log(pr, EvDb(FindAllDataQuery(QueryOf(pr)), ok))
      rels == QueryOf(pr).relations
  IN IF ~ok THEN Reject(pr1, DbError(pr))
     ELSE IF ~HasRelations(QueryOf(pr)) THEN FindAllFinish(pr1, rawData)
     ELSE IF revision = RevA THEN FindAllFinish(pr1, ProcessRelatedData(rawData, rels.v))
     ELSE IF Len(rawData) = 0 THEN FindAllFinish(pr1, rawData)
     ELSE NextRelation(
            [pr1 EXCEPT !.t.rows = rawData,
                        !.t.relData = [id \in Range(RecordIds(rawData)) |-> <<>>]], 1)

\* the batch fetch the handler awaits
RelationQuery(pr) ==
  BatchQuery(QueryOf(pr).relations.v[pr.t.relIdx], RecordIds(pr.t.rows))

\* RevB: after a batch fetch; its failure is logged and the loop goes on
FindAllAfterRelation(pr, ok, relatedResults) ==
  LET pr1 == Log(pr, EvDb(RelationQuery(pr), ok))
      rel == QueryOf(pr).relations.v[pr.t.relIdx]
  IN NextRelation(
       IF ok THEN [pr1 EXCEPT !.t.relData =
                     ApplyDefaults(RelatedRows(pr.t.relData, relatedResults, rel), rel)]
       ELSE pr1,
       pr.t.relIdx + 1)

\* after cache.set
FindAllAfterSet(pr, ok) ==
  LET pr1 == Log(pr, EvSet(pr.key, JSONstringifyResult(pr.t.record), ok))
  IN IF ~ok /\ revision = RevA THEN Reject(pr1, CacheError(pr))
     ELSE Resolve(pr1, pr.t.record)

\* the calls of the model: a legacy call, one with a filter and a page,
\* one with a filter and a relation
PostsRelation ==
  Obj(<<<<"table", Str(RelTable)>>, <<"foreignKey", Str("user_id")>>,
        <<"select", Arr(<<"user_id", "title">>)>>>>)
FindAllOptions ==
  {Obj(<<>>),
   Obj(<<<<"filters", Obj(<<<<"name", Str("a")>>>>)>>,
         <<"pagination", Obj(<<<<"page", Num(1)>>, <<"limit", Num(1)>>>>)>>>>),
   Obj(<<<<"filters", Obj(<<<<"name", Str("a")>>>>)>>,
         <<"relations", Arr(<<PostsRelation>>)>>>>)}

CallFindAll(p) ==
  /\ Free(p)
  /\ \E o \in FindAllOptions :
       proc' = [proc EXCEPT ![p] = FindAllEnter(Begin("findAll", [options |-> o]))]
  /\ UNCHANGED <<calc, revision, useCache, db, cache, faults, expected>>

FindAllCacheGet(p) ==
  /\ proc[p].pc = "fa_get"
  /\ \E ok \in Outcomes :
       /\ proc' = [proc EXCEPT ![p] =
                     FindAllAfterGet(proc[p], ok, CacheGet(cache, proc[p].key))]
       /\ faults' = faults + (IF ok THEN 0 ELSE 1)
  /\ UNCHANGED <<calc, revision, useCache, db, cache, expected>>

FindAllCountStep(p) ==
  /\ proc[p].pc = "fa_count"
  /\ \E ok \in Outcomes :
       LET st == FindAllCountQuery(QueryOf(proc[p]))
       IN /\ proc' = [proc EXCEPT ![p] =
                        FindAllAfterCount(proc[p], DbOk(ok, st), ExecRows(db, st))]
          /\ faults' = faults + (IF ok THEN 0 ELSE 1)
  /\ UNCHANGED <<calc, revision, useCache, db, cache, expected>>

FindAllDataStep(p) ==
  /\ proc[p].pc = "fa_data"
  /\ \E ok \in Outcomes :
       LET st == FindAllDataQuery(QueryOf(proc[p]))
       IN /\ proc' = [proc EXCEPT ![p] =
                        FindAllAfterData(proc[p], DbOk(ok, st), ExecRows(db, st))]
          /\ faults' = faults + (IF ok THEN 0 ELSE 1)
  /\ UNCHANGED <<calc, revision, useCache, db, cache, expected>>

FindAllRelationStep(p) ==
  /\ proc[p].pc = "fa_rel"
  /\ \E ok \in Outcomes :
       LET st == RelationQuery(proc[p])
       IN /\ proc' = [proc EXCEPT ![p] =
                        FindAllAfterRelation(proc[p], DbOk(ok, st), ExecRows(db, st))]
          /\ faults' = faults + (IF ok THEN 0 ELSE 1)
  /\ UNCHANGED <<calc, revision, useCache, db, cache, expected>>

FindAllCacheSet(p) ==
  /\ proc[p].pc = "fa_set"
  /\ \E ok \in Outcomes :
       /\ proc' = [proc EXCEPT ![p] = FindAllAfterSet(proc[p], ok)]
       /\ cache' \in IF ok THEN Stored(cache, proc[p].key, JSONstringifyResult(proc[p].t.record))
                     ELSE {cache}
       /\ faults' = faults + (IF ok THEN 0 ELSE 1)
  /\ UNCHANGED <<calc, revision, useCache, db, expected>>

\* ------------------------------------------------- cache invalidation
\* invalidateTableCache, and the Promise.all of update and delete that runs
\* cache.del(findById key) beside it.  What follows the invalidation:
AfterInvalidate(pr) ==
  IF pr.kind = "withTransaction" THEN [pr EXCEPT !.pc = "tx_commit"]
  ELSE Resolve(pr, pr.t.record)

\* both branches settled: the handler runs on
InvalidateJoin(pr) ==
  IF pr.t.inv = "done" /\ pr.t.del1 \in {"none", "done"}
  THEN AfterInvalidate(pr) ELSE pr

\* a faulty variant of the writes: the value is returned, nothing invalidated
ReturnWithoutInvalidate(pr, ret, withDel) == Resolve(pr, ret)

\* the handler starts invalidating; ret is the value it will return
StartInvalidate(pr, ret, withDel) ==
  [pr EXCEPT !.pc = "inv", !.t.record = ret, !.t.inv = "keys",
             !.t.del1 = IF withDel THEN "pending" ELSE "none"]

\* update / delete: cache.del(this._buildCacheKey('findById', { id }))
AfterDelOne(pr, ok) ==
  LET k == BuildCacheKey("findById", <<<<"id", pr.a.id>>>>)
      pr1 == Log(pr, EvDel({k}, ok))
  IN IF ok THEN InvalidateJoin([pr1 EXCEPT !.t.del1 = "done"])
     ELSE IF revision = RevA THEN Reject(pr1, CacheError(pr))
     ELSE AfterInvalidate(pr1)

\* a faulty variant of invalidateTableCache: the keys listed are not deleted
AfterKeysWithoutDel(pr, ok, keys) ==
  InvalidateJoin([Log(pr, EvKeys(Table \o ":*", ok, keys)) EXCEPT !.t.inv = "done"])

\* invalidateTableCache: keys = await this.cache.keys(`${table}:*`)
AfterKeys(pr, ok, keys) ==
  LET pr1 == Log(pr, EvKeys(Table \o ":*", ok, keys))
  IN IF ok /\ keys # {}
     THEN [pr1 EXCEPT !.t.inv = "del", !.t.listed = keys]
     ELSE InvalidateJoin([pr1 EXCEPT !.t.inv = "done"])

\* invalidateTableCache: await this.cache.del(keys)
AfterDelKeys(pr, ok) ==
  InvalidateJoin([Log(pr, EvDel(pr.t.listed, ok)) EXCEPT !.t.inv = "done"])

InvalidateDelOne(p) ==
  /\ proc[p].pc = "inv" /\ proc[p].t.del1 = "pending"
  /\ \E ok \in Outcomes :
       /\ proc' = [proc EXCEPT ![p] = AfterDelOne(proc[p], ok)]
       /\ cache' = IF ok
                   THEN CacheDel(cache, {BuildCacheKey("findById", <<<<"id", proc[p].a.id>>>>)})
                   ELSE cache
       /\ faults' = faults + (IF ok THEN 0 ELSE 1)
  /\ UNCHANGED <<calc, revision, useCache, db, expected>>

InvalidateKeys(p) ==
  /\ proc[p].pc = "inv" /\ proc[p].t.inv = "keys"
  /\ \E ok \in Outcomes :
       /\ proc' = [proc EXCEPT ![p] = AfterKeys(proc[p], ok, CacheKeys(cache, Table \o ":*"))]
       /\ faults' = faults + (IF ok THEN 0 ELSE 1)
  /\ UNCHANGED <<calc, revision, useCache, db, cache, expected>>

InvalidateDelKeys(p) ==
  /\ proc[p].pc = "inv" /\ proc[p].t.inv = "del"
  /\ \E ok \in Outcomes :
       /\ proc' = [proc EXCEPT ![p] = AfterDelKeys(proc[p], ok)]
       /\ cache' = IF ok THEN CacheDel(cache, proc[p].t.listed) ELSE cache
       /\ faults' = faults + (IF ok THEN 0 ELSE 1)
  /\ UNCHANGED <<calc, revision, useCache, db, expected>>

\* ------------------------------------------------ what findById should see
\* History: per id, what the last write of the model to that id promises
\* a later findById.  A write that bypasses create, update and delete
\* (executeQuery, a transaction) promises nothing.
NothingExpected == [i \in Ids |-> [kind |-> "unknown"]]
ExpectCreated(e, st, result) ==
  [e EXCEPT ![InsertedRow(st).id.v] =
     IF st.returning THEN [kind |-> "record", v |-> result[1]] ELSE [kind |-> "unknown"]]
ExpectUpdated(e, id, data) == [e EXCEPT ![id] = [kind |-> "data", v |-> data]]
ExpectDeleted(e, id) == [e EXCEPT ![id] = [kind |-> "deleted"]]

\* ------------------------------------------------ create, update, delete
\* !data || typeof data !== 'object' || Object.keys(data).length === 0
BadPayload(data) == Falsy(data) \/ data.ty # "object" \/ Len(data.v) = 0
\* !data.id
NoIdIn(data) == ~Has(data.v, "id") \/ Falsy(Get(data.v, "id"))

\* create up to its first await; uuid is what uuidv4() returned
CreateEnter(pr, uuid) ==
  IF BadPayload(pr.a.data) THEN Reject(pr, ValidationError)
  ELSE IF PrimaryKey = "id" /\ NoIdIn(pr.a.data)
       THEN [pr EXCEPT !.pc = "cr_query", !.a.data.v = Put(@, "id", uuid)]
  ELSE [pr EXCEPT !.pc = "cr_query"]

\* after the INSERT
CreateAfterQuery(pr, ok, result) ==
  LET pr1 == Log(pr, EvDb(InsertQuery(pr.a.data.v, pr.a.returnRecord), ok))
      ret == IF pr.a.returnRecord THEN result[1] ELSE result
  IN IF ~ok THEN Reject(pr1, DbError(pr))
     ELSE IF useCache THEN StartInvalidate(pr1, ret, FALSE)
     ELSE Resolve(pr1, ret)

\* a faulty variant of update: the id is not checked
UpdateEnterWithoutIdCheck(pr) ==
  IF BadPayload(pr.a.data) THEN Reject(pr, ValidationError)
  ELSE [pr EXCEPT !.pc = "up_query"]

\* update up to its first await
UpdateEnter(pr) ==
  IF Falsy(pr.a.id) THEN Reject(pr, ValidationError)
  ELSE IF BadPayload(pr.a.data) THEN Reject(pr, ValidationError)
  ELSE [pr EXCEPT !.pc = "up_query"]

\* after the UPDATE
UpdateAfterQuery(pr, ok, result) ==
  LET pr1 == Log(pr, EvDb(UpdateQuery(pr.a.id, pr.a.data.v, pr.a.returnRecord), ok))
      ret == IF pr.a.returnRecord
             THEN (IF Len(result) > 0 THEN result[1] ELSE Null)
             ELSE result
  IN IF ~ok THEN Reject(pr1, DbError(pr))
     ELSE IF useCache THEN StartInvalidate(pr1, ret, TRUE)
     ELSE Resolve(pr1, ret)

\* delete up to its first await
DeleteEnter(pr) ==
  IF Falsy(pr.a.id) THEN Reject(pr, ValidationError)
  ELSE IF pr.a.returnRecord
       THEN FindByIdEnter([pr EXCEPT !.t.parent = "delete"], pr.a.id, Undef)
  ELSE [pr EXCEPT !.pc = "del_query"]

\* a faulty variant of the end of delete: the result of the DELETE is
\* returned even when the record was asked for
DeleteAfterQueryReturningResult(pr, ok, result) ==
  LET pr1 == Log(pr, EvDb(DeleteQuery(pr.a.id), ok))
  IN IF ~ok THEN Reject(pr1, DbError(pr))
     ELSE IF useCache THEN StartInvalidate(pr1, result, TRUE)
     ELSE Resolve(pr1, result)

\* after the DELETE
DeleteAfterQuery(pr, ok, result) ==
  LET pr1 == Log(pr, EvDb(DeleteQuery(pr.a.id), ok))
      ret == IF pr.a.returnRecord THEN pr.t.record ELSE result
  IN IF ~ok THEN Reject(pr1, DbError(pr))
     ELSE IF useCache THEN StartInvalidate(pr1, ret, TRUE)
     ELSE Resolve(pr1, ret)

Payloads ==
  {Null, Str("x"), Obj(<<>>)}
    \cup {Obj(<<<<"name", Str(n)>>>>) : n \in Names}
    \cup {Obj(<<<<"id", Num(i)>>, <<"name", Str(n)>>>>) : i \in Ids, n \in Names}
UpdatePayloads ==
  {Null, Obj(<<>>)} \cup {Obj(<<<<"name", Str(n)>>>>) : n \in Names}
\* identifiers not in use, from which uuidv4() draws
FreshIds == {i \in Ids : \A r \in db : r.id # Num(i)}

CallCreate(p) ==
  /\ Free(p)
  /\ \E data \in Payloads, rr \in BOOLEAN, uuid \in FreshIds \cup {0} :
       /\ (uuid = 0) = (FreshIds = {})
       /\ ~(BadPayload(data) \/ ~NoIdIn(data)) => uuid # 0
       /\ proc' = [proc EXCEPT ![p] =
            CreateEnter(Begin("create", [data |-> data, returnRecord |-> rr]), Num(uuid))]
  /\ UNCHANGED <<calc, revision, useCache, db, cache, faults, expected>>

CreateQueryStep(p) ==
  /\ proc[p].pc = "cr_query"
  /\ \E ok \in Outcomes :
       LET st == InsertQuery(proc[p].a.data.v, proc[p].a.returnRecord)
       IN /\ proc' = [proc EXCEPT ![p] =
                        CreateAfterQuery(proc[p], DbOk(ok, st), ExecRows(db, st))]
          /\ db' = IF DbOk(ok, st) THEN ExecDb(db, st) ELSE db
          /\ expected' = IF DbOk(ok, st)
                         THEN ExpectCreated(expected, st, ExecRows(db, st)) ELSE expected
          /\ faults' = faults + (IF ok THEN 0 ELSE 1)
  /\ UNCHANGED <<calc, revision, useCache, cache>>

CallUpdate(p) ==
  /\ Free(p)
  /\ \E i \in 0 .. MaxId, data \in UpdatePayloads, rr \in BOOLEAN :
       proc' = [proc EXCEPT ![p] =
         UpdateEnter(Begin("update", [id |-> Num(i), data |-> data, returnRecord |-> rr]))]
  /\ UNCHANGED <<calc, revision, useCache, db, cache, faults, expected>>

UpdateQueryStep(p) ==
  /\ proc[p].pc = "up_query"
  /\ \E ok \in Outcomes :
       LET st == UpdateQuery(proc[p].a.id, proc[p].a.data.v, proc[p].a.returnRecord)
       IN /\ proc' = [proc EXCEPT ![p] = UpdateAfterQuery(proc[p], ok, ExecRows(db, st))]
          /\ db' = IF ok THEN ExecDb(db, st) ELSE db
          /\ expected' = IF ok /\ UpdateHit(db, st) # {}
                         THEN ExpectUpdated(expected, proc[p].a.id.v, proc[p].a.data.v)
                         ELSE expected
          /\ faults' = faults + (IF ok THEN 0 ELSE 1)
  /\ UNCHANGED <<calc, revision, useCache, cache>>

CallDelete(p) ==
  /\ Free(p)
  /\ \E i \in 0 .. MaxId, rr \in BOOLEAN :
       proc' = [proc EXCEPT ![p] =
         DeleteEnter(Begin("delete", [id |-> Num(i), returnRecord |-> rr]))]
  /\ UNCHANGED <<calc, revision, useCache, db, cache, faults, expected>>

DeleteQueryStep(p) ==
  /\ proc[p].pc = "del_query"
  /\ \E ok \in Outcomes :
       LET st == DeleteQuery(proc[p].a.id)
       IN /\ proc' = [proc EXCEPT ![p] = DeleteAfterQuery(proc[p], ok, ExecRows(db, st))]
          /\ db' = IF ok THEN ExecDb(db, st) ELSE db
          /\ expected' = IF ok THEN ExpectDeleted(expected, proc[p].a.id.v) ELSE expected
          /\ faults' = faults + (IF ok THEN 0 ELSE 1)
  /\ UNCHANGED <<calc, revision, useCache, cache>>

\* --------------------------------------- invalidateTableCache, executeQuery
\* invalidateTableCache called by the application
CallInvalidateTableCache(p) ==
  /\ Free(p)
  /\ proc' = [proc EXCEPT ![p] =
       IF ~useCache THEN Resolve(Begin("invalidateTableCache", <<>>), Undef)
       ELSE StartInvalidate(Begin("invalidateTableCache", <<>>), Undef, FALSE)]
  /\ UNCHANGED <<calc, revision, useCache, db, cache, faults, expected>>

\* the statements the application hands to executeQuery
RawStatements == {FindByIdQuery(Undef, Num(i)) : i \in Ids}

\* after db.prepare: the rows, or the error rethrown
ExecuteQueryAfter(pr, ok, rows) ==
  LET pr1 == Log(pr, EvDb(pr.a.stmt, ok))
  IN IF ~ok THEN Reject(pr1, DbError(pr)) ELSE Resolve(pr1, rows)

CallExecuteQuery(p) ==
  /\ Free(p)
  /\ \E st \in RawStatements :
       proc' = [proc EXCEPT ![p] =
                  [Begin("executeQuery", [stmt |-> st]) EXCEPT !.pc = "xq_query"]]
  /\ UNCHANGED <<calc, revision, useCache, db, cache, faults, expected>>

ExecuteQueryStep(p) ==
  /\ proc[p].pc = "xq_query"
  /\ \E ok \in Outcomes :
       LET st == proc[p].a.stmt
       IN /\ proc' = [proc EXCEPT ![p] =
                        ExecuteQueryAfter(proc[p], DbOk(ok, st), ExecRows(db, st))]
          /\ db' = IF DbOk(ok, st) THEN ExecDb(db, st) ELSE db
          /\ expected' = IF DbOk(ok, st) /\ st.verb # "SELECT" THEN NothingExpected
                         ELSE expected
          /\ faults' = faults + (IF ok THEN 0 ELSE 1)
  /\ UNCHANGED <<calc, revision, useCache, cache>>

\* -------------------------------------------------------- withTransaction
\* this.db.transaction(callback): the backend opens a transaction, runs the
\* callback on its connection, commits when the callback resolves and rolls
\* back when it rejects.  The callback is the application's: it issues
\* statements through txModel, then resolves or throws.
TxStatements ==
  {InsertQuery(<<<<"id", Num(i)>>, <<"name", Str("a")>>>>, TRUE) : i \in Ids}
    \cup {UpdateQuery(Num(i), <<<<"name", Str("b")>>>>, TRUE) : i \in Ids}
    \cup {DeleteQuery(Num(i)) : i \in Ids}
    \cup {FindByIdQuery(Undef, Num(i)) : i \in Ids}

\* the backend opened the transaction, or failed to
TxAfterBegin(pr, ok) ==
  LET pr1 == Log(pr, [ev |-> "tx.begin", ok |-> ok])
  IN IF ~ok THEN Reject(pr1, DbError(pr))
     ELSE [pr1 EXCEPT !.pc = "tx_body", !.t.txdb = db]

\* a statement of the callback on the connection; its failure ends the callback
TxAfterStatement(pr, st, ok) ==
  LET pr1 == Log(pr, EvDb(st, ok))
  IN IF ~ok THEN [pr1 EXCEPT !.pc = "tx_rollback", !.error = DbError(pr)]
     ELSE [pr1 EXCEPT !.t.txdb = ExecDb(pr.t.txdb, st), !.t.n = pr.t.n + 1,
                      !.t.wrote = pr.t.wrote \/ st.verb # "SELECT"]

\* the callback resolved: the cache is invalidated inside db.transaction
TxAfterCallback(pr) ==
  IF useCache THEN StartInvalidate(pr, Undef, FALSE)
  ELSE [pr EXCEPT !.pc = "tx_commit", !.t.record = Undef]

\* the backend commits, or fails to
TxAfterCommit(pr, ok) ==
  LET pr1 == Log(pr, [ev |-> "tx.commit", ok |-> ok])
  IN IF ~ok THEN Reject(pr1, DbError(pr)) ELSE Resolve(pr1, pr.t.record)

CallWithTransaction(p) ==
  /\ Free(p)
  /\ proc' = [proc EXCEPT ![p] = [Begin("withTransaction", <<>>) EXCEPT !.pc = "tx_begin"]]
  /\ UNCHANGED <<calc, revision, useCache, db, cache, faults, expected>>

TxBegin(p) ==
  /\ proc[p].pc = "tx_begin"
  /\ \E ok \in Outcomes :
       /\ proc' = [proc EXCEPT ![p] = TxAfterBegin(proc[p], ok)]
       /\ faults' = faults + (IF ok THEN 0 ELSE 1)
  /\ UNCHANGED <<calc, revision, useCache, db, cache, expected>>

TxStatement(p) ==
  /\ proc[p].pc = "tx_body" /\ proc[p].t.n < MaxTxOps
  /\ \E st \in TxStatements, ok \in Outcomes :
       /\ proc' = [proc EXCEPT ![p] =
                     TxAfterStatement(proc[p], st, ok /\ ~Refused(proc[p].t.txdb, st))]
       /\ faults' = faults + (IF ok THEN 0 ELSE 1)
  /\ UNCHANGED <<calc, revision, useCache, db, cache, expected>>

\* the callback throws by itself
TxThrow(p) ==
  /\ proc[p].pc = "tx_body"
  /\ proc' = [proc EXCEPT ![p] =
                [proc[p] EXCEPT !.pc = "tx_rollback",
                                !.error = [type |-> "callback", at |-> 0]]]
  /\ UNCHANGED <<calc, revision, useCache, db, cache, faults, expected>>

TxCallbackDone(p) ==
  /\ proc[p].pc = "tx_body"
  /\ proc' = [proc EXCEPT ![p] = TxAfterCallback(proc[p])]
  /\ UNCHANGED <<calc, revision, useCache, db, cache, faults, expected>>

\* the backend rolls back and db.transaction rejects with the callback's error
TxRollback(p) ==
  /\ proc[p].pc = "tx_rollback"
  /\ proc' = [proc EXCEPT ![p] =
                Reject(Log(proc[p], [ev |-> "tx.rollback", ok |-> TRUE]), proc[p].error)]
  /\ UNCHANGED <<calc, revision, useCache, db, cache, faults, expected>>

TxCommit(p) ==
  /\ proc[p].pc = "tx_commit"
  /\ \E ok \in Outcomes :
       /\ proc' = [proc EXCEPT ![p] = TxAfterCommit(proc[p], ok)]
       /\ db' = IF ok THEN proc[p].t.txdb ELSE db
       /\ expected' = IF ok /\ proc[p].t.wrote THEN NothingExpected ELSE expected
       /\ faults' = faults + (IF ok THEN 0 ELSE 1)
  /\ UNCHANGED <<calc, revision, useCache, cache>>

\* ------------------------------------------------------------ the cache's TTL
\* An entry expires (set ... 'EX', cacheTTL).  An invalidateTableCache left
\* behind by a rejected Promise.all deletes entries later in the same way.
Expire ==
  /\ \E k \in DOMAIN cache : cache' = CacheDel(cache, {k})
  /\ UNCHANGED <<calc, revision, useCache, db, proc, faults, expected>>

\* the caller takes the settled promise; the next call may start
Return(p) ==
  /\ proc[p].pc = "done"
  /\ proc' = [proc EXCEPT ![p] = IdleProc]
  /\ UNCHANGED <<calc, revision, useCache, db, cache, faults, expected>>

\* ------------------------------------------------------- specification
Init ==
  /\ revision \in {RevA, RevB}
  /\ useCache \in BOOLEAN
  /\ db = {}
  /\ cache = <<>>
  /\ proc = [p \in AllProcs |-> IdleProc]
  /\ faults = 0
  /\ expected = NothingExpected
  /\ calc = NoCalc

Step(p) ==
  \/ CallFindById(p) \/ FindByIdCacheGet(p) \/ FindByIdQueryStep(p) \/ FindByIdCacheSet(p)
  \/ CallFindByField(p) \/ FindByFieldCacheGet(p) \/ FindByFieldQueryStep(p)
  \/ FindByFieldCacheSet(p)
  \/ CallFindAll(p) \/ FindAllCacheGet(p) \/ FindAllCountStep(p) \/ FindAllDataStep(p)
  \/ FindAllRelationStep(p) \/ FindAllCacheSet(p)
  \/ CallCount(p) \/ CountCacheGet(p) \/ CountQueryStep(p) \/ CountCacheSet(p)
  \/ CallCreate(p) \/ CreateQueryStep(p)
  \/ CallUpdate(p) \/ UpdateQueryStep(p)
  \/ CallDelete(p) \/ DeleteQueryStep(p)
  \/ InvalidateDelOne(p) \/ InvalidateKeys(p) \/ InvalidateDelKeys(p)
  \/ CallInvalidateTableCache(p) \/ CallExecuteQuery(p) \/ ExecuteQueryStep(p)
  \/ CallWithTransaction(p) \/ TxBegin(p) \/ TxStatement(p) \/ TxThrow(p)
  \/ TxCallbackDone(p) \/ TxRollback(p) \/ TxCommit(p)
  \/ Return(p)

Next == (\E p \in Callers : Step(p)) \/ Expire

Spec == Init /\ [][Next]_vars

\* ------------------------------------------- the pagination block alone
MaxTotal == 6       \* the totals a COUNT statement reports: 0..MaxTotal
MaxPage == 3        \* pagination.page: 0..MaxPage
MaxPageLimit == 3   \* pagination.limit: 0..MaxPageLimit

\* the calls whose pagination block is computed
PageOptions ==
  {Obj(<<>>), Obj(<<<<"filters", Obj(<<>>)>>>>)}
    \cup {Obj(<<<<"pagination", Obj(<<<<"page", Num(pg)>>, <<"limit", Num(lm)>>>>)>>>>) :
            pg \in 0 .. MaxPage, lm \in 0 .. MaxPageLimit}

PageInit ==
  /\ revision = RevA /\ useCache = FALSE /\ db = {} /\ cache = <<>>
  /\ proc = [p \in AllProcs |-> IdleProc]
  /\ faults = 0
  /\ expected = NothingExpected
  /\ \E o \in PageOptions, total \in 0 .. MaxTotal :
       calc = [fn |-> "pagination", options |-> o, total |-> total, done |-> FALSE]

\* findAll builds the result from the total the COUNT statement reported
ApplyPagination ==
  /\ calc.fn = "pagination" /\ ~calc.done
  /\ calc' = [fn |-> "pagination", options |-> calc.options, total |-> calc.total,
              done |-> TRUE,
              out |-> BuildResult(Normalize(calc.options), <<>>, calc.total).pagination]
  /\ UNCHANGED <<revision, useCache, db, cache, proc, faults, expected>>

PageNext == ApplyPagination
PageSpec == PageInit /\ [][PageNext]_vars

\* ------------------------------------------ the pagination clauses alone
MaxCfgLimit == 3    \* options.defaultLimit, options.maxLimit: absent or 1..MaxCfgLimit

\* a plain object of the entries whose value is not undefined
ObjOf(entries) == Obj(SelectSeq(entries, LAMBDA e : e[2] # Undef))
\* what a caller may pass as pagination.page or pagination.limit
PageInputs == {Undef} \cup {Num(n) : n \in -1 .. MaxPage}
LimitInputs == {Undef} \cup {Num(n) : n \in -1 .. MaxCfgLimit + 1}
\* what the constructor may be given as defaultLimit or maxLimit
LimitOptions == {Undef} \cup {Num(n) : n \in 1 .. MaxCfgLimit}

LimitInit ==
  /\ revision = RevA /\ useCache = FALSE /\ db = {} /\ cache = <<>>
  /\ proc = [p \in AllProcs |-> IdleProc]
  /\ faults = 0
  /\ expected = NothingExpected
  /\ \E pg \in PageInputs, lm \in LimitInputs, dl \in LimitOptions, ml \in LimitOptions :
       calc = [fn |-> "paging", done |-> FALSE,
               options |-> Obj(<<<<"pagination",
                                   ObjOf(<<<<"page", pg>>, <<"limit", lm>>>>)>>>>),
               defaultLimit |-> ConfiguredLimit(dl, DefaultLimit),
               maxLimit |-> ConfiguredLimit(ml, MaxLimit)]

\* findAll computes page, limit, offset and the two clauses
ApplyPaging ==
  /\ calc.fn = "paging" /\ ~calc.done
  /\ calc' = [fn |-> "paging", done |-> TRUE, options |-> calc.options,
              defaultLimit |-> calc.defaultLimit, maxLimit |-> calc.maxLimit,
              out |-> PagingWith(Normalize(calc.options), calc.defaultLimit, calc.maxLimit),
              limitClause |->
                LimitClause(Normalize(calc.options),
                  PagingWith(Normalize(calc.options), calc.defaultLimit, calc.maxLimit)),
              offsetClause |->
                OffsetClause(Normalize(calc.options),
                  PagingWith(Normalize(calc.options), calc.defaultLimit, calc.maxLimit))]
  /\ UNCHANGED <<revision, useCache, db, cache, proc, faults, expected>>

LimitNext == ApplyPaging
LimitSpec == LimitInit /\ [][LimitNext]_vars

\* --------------------------------------------- the plan of findAll alone
\* arguments of findAll: legacy ones (no query key) and query objects
PlanOptions ==
  {Null, Num(5), Arr(<<>>), Obj(<<>>),
   Obj(<<<<"name", Str("a")>>>>), Obj(<<<<"name", Str("b")>>>>),
   Obj(<<<<"id", Num(1)>>>>),
   Obj(<<<<"name", Str("a")>>, <<"id", Num(1)>>>>),
   Obj(<<<<"filters", Obj(<<<<"name", Str("a")>>>>)>>>>),
   Obj(<<<<"name", Str("a")>>, <<"sort", Str("name")>>>>),
   Obj(<<<<"sort", Str("-name")>>>>),
   Obj(<<<<"fields", Arr(<<"name">>)>>>>),
   Obj(<<<<"pagination", Obj(<<<<"page", Num(1)>>, <<"limit", Num(2)>>>>)>>>>)}

PlanInit ==
  /\ revision = RevA /\ useCache = FALSE /\ db = {} /\ cache = <<>>
  /\ proc = [p \in AllProcs |-> IdleProc]
  /\ faults = 0
  /\ expected = NothingExpected
  /\ \E o \in PlanOptions, total \in 0 .. MaxTotal :
       calc = [fn |-> "plan", done |-> FALSE, options |-> o, total |-> total]

\* findAll on a cache miss: its normalized query, its first statement, its
\* DATA statement and the pagination block for the total the COUNT reports
ApplyPlan ==
  /\ calc.fn = "plan" /\ ~calc.done
  /\ calc' = [fn |-> "plan", done |-> TRUE, options |-> calc.options,
              total |-> calc.total,
              query |-> Normalize(calc.options),
              first |-> FirstStatement(Normalize(calc.options)),
              data |-> FindAllDataQuery(Normalize(calc.options)),
              pagination |->
                BuildResult(Normalize(calc.options), <<>>, calc.total).pagination]
  /\ UNCHANGED <<revision, useCache, db, cache, proc, faults, expected>>

PlanNext == ApplyPlan
PlanSpec == PlanInit /\ [][PlanNext]_vars

\* ------------------------------------------------ the reassembly alone
MaxRows == 3

\* part_000 _processRelatedData: the containers set on a record
RECURSIVE InitRelations(_, _)
InitRelations(record, rels) ==
  IF Len(rels) = 0 THEN record
  ELSE InitRelations((AsOf(rels[1]) :> EmptyOf(rels[1])) @@ record, Tail(rels))

\* relation.select && Array.isArray(relation.select) && relation.select.length === 1
SingleField(rel) ==
  /\ ~Falsy(GetOr(rel.v, "select"))
  /\ GetOr(rel.v, "select").ty = "array"
  /\ Len(GetOr(rel.v, "select").v) = 1

RECURSIVE ThrowsOnPrimitive(_, _, _)
\* part_000, second loop: relationData[recordId][as] of a single relation
\* with one selected field holds the raw value; the next row of the same
\* record assigns relObject[field] on it, a TypeError in strict mode when
\* the value is a truthy primitive (prim: the ids in that situation)
ThrowsOnPrimitive(rows, rel, prim) ==
  IF Len(rows) = 0 THEN FALSE
  ELSE IF rows[1] = Null \/ Falsy(RowId(rows[1])) \/ IsMany(rel) \/ ~SingleField(rel)
  THEN ThrowsOnPrimitive(Tail(rows), rel, prim)
  ELSE IF (AsOf(rel) \o "." \o GetOr(rel.v, "select").v[1]) \in DOMAIN rows[1]
  THEN \/ RowId(rows[1]) \in prim
       \/ ThrowsOnPrimitive(Tail(rows), rel,
            IF Falsy(rows[1][AsOf(rel) \o "." \o GetOr(rel.v, "select").v[1]])
            THEN prim \ {RowId(rows[1])} ELSE prim \cup {RowId(rows[1])})
  ELSE ThrowsOnPrimitive(Tail(rows), rel, prim \ {RowId(rows[1])})

\* part_000 _processRelatedData: [...rawData] with the containers set; the
\* relationData dictionary it fills is not merged into the records
ProcessRelatedDataC(rawData, rels) ==
  [i \in 1 .. Len(rawData) |->
     IF rawData[i] = Null THEN Null ELSE InitRelations(rawData[i], rels)]

RECURSIVE FetchRelations(_, _, _, _)
\* part_005 _processRelatedData: the loop over the relations; fetched[i] is
\* the outcome of the batch fetch of relation i
FetchRelations(relationData, records, rels, fetched) ==
  IF Len(rels) = 0 THEN relationData
  ELSE FetchRelations(
         IF Len(RecordIds(records)) = 0 \/ ~fetched[1].ok THEN relationData
         ELSE ApplyDefaults(RelatedRows(relationData, fetched[1].rows, rels[1]), rels[1]),
         records, Tail(rels), Tail(fetched))

\* part_005 _processRelatedData
ProcessRelatedDataB(records, rels, fetched) ==
  IF Len(records) = 0 \/ Len(rels) = 0 THEN records
  ELSE MergeRelationData(records,
         FetchRelations([id \in Range(RecordIds(records)) |-> <<>>],
                        records, rels, fetched))

Reassembled(data) == [ok |-> TRUE, data |-> data]
TypeError == [ok |-> FALSE, data |-> <<>>]

\* _processRelatedData of each revision, with the error it may raise
Reassemble(rev, rawData, rels, fetched) ==
  IF rev = RevA
  THEN \* row[primaryKeyField] of a null row
       IF \E i \in 1 .. Len(rawData) : rawData[i] = Null THEN TypeError
       ELSE Reassembled(ProcessRelatedData(rawData, rels))
  ELSE IF rev = RevB THEN Reassembled(ProcessRelatedDataB(rawData, rels, fetched))
  ELSE IF \E r \in 1 .. Len(rels) : ThrowsOnPrimitive(rawData, rels[r], {})
       THEN TypeError
       ELSE Reassembled(ProcessRelatedDataC(rawData, rels))

\* rows of users joined with posts, entries of a result that may be null
Joined(id, name, title, body) ==
  ("posts.title" :> Str(title)) @@ ("posts.body" :> Str(body))
    @@ [id |-> Num(id), name |-> Str(name)]
ResultRows ==
  {Null,
   Joined(1, "a", "x", "y"), Joined(1, "a", "z", "w"),
   [id |-> Num(2), name |-> Str("b")],
   ("posts.title" :> Str("")) @@ [id |-> Num(2), name |-> Str("b")],
   [name |-> Str("c")]}
RECURSIVE SeqsUpTo(_, _)
SeqsUpTo(S, n) ==
  IF n = 0 THEN {<<>>}
  ELSE SeqsUpTo(S, n - 1) \cup
       {Append(s, x) : s \in {t \in SeqsUpTo(S, n - 1) : Len(t) = n - 1}, x \in S}

\* the relation declared: posts of a user, of type many or of default type
DeclaredRelations ==
  {ObjOf(<<<<"table", Str("posts")>>, <<"foreignKey", Str("user_id")>>,
           <<"type", ty>>, <<"select", sel>>>>) :
     ty \in {Undef, Str("many")},
     sel \in {Undef, Arr(<<"title">>), Arr(<<"title", "body">>)}}

\* the rows a batch fetch of posts may return
Post(userId, title, body) ==
  [user_id |-> Num(userId), title |-> Str(title), body |-> Str(body)]
FetchOutcomes ==
  {[ok |-> FALSE, rows |-> <<>>]} \cup
  {[ok |-> TRUE, rows |-> r] :
     r \in {<<>>, <<Post(1, "x", "y")>>, <<Post(1, "x", "y"), Post(1, "z", "w")>>,
            <<Post(2, "", "w")>>, <<Post(1, "x", "y"), Post(2, "", "w")>>}}

ReassemblyInit ==
  /\ revision \in {RevA, RevB, RevC}
  /\ useCache = FALSE /\ db = {} /\ cache = <<>>
  /\ proc = [p \in AllProcs |-> IdleProc]
  /\ faults = 0
  /\ expected = NothingExpected
  /\ \E rows \in SeqsUpTo(ResultRows, MaxRows), rel \in DeclaredRelations,
        f \in FetchOutcomes :
       /\ revision # RevB => f = [ok |-> TRUE, rows |-> <<>>]
       /\ calc = [fn |-> "reassemble", done |-> FALSE, rawData |-> rows,
                  rels |-> <<rel>>, fetched |-> <<f>>]

\* data = _processRelatedData(rawData, relations)
ApplyReassembly ==
  /\ calc.fn = "reassemble" /\ ~calc.done
  /\ calc' = [fn |-> "reassemble", done |-> TRUE, rawData |-> calc.rawData,
              rels |-> calc.rels, fetched |-> calc.fetched,
              out |-> Reassemble(revision, calc.rawData, calc.rels, calc.fetched)]
  /\ UNCHANGED <<revision, useCache, db, cache, proc, faults, expected>>

ReassemblyNext == ApplyReassembly
ReassemblySpec == ReassemblyInit /\ [][ReassemblyNext]_vars

\* ------------------------------------------- the WHERE clauses alone
MaxFilters == 2

\* the rows of the table the statements are run on
SampleDb == {[id |-> Num(1), name |-> Str("a")], [id |-> Num(2), name |-> Str("b")]}

\* entries of a filter expression of the main table
MainFilterEntries ==
  {<<"name", Str("a")>>, <<"name", Arr(<<>>)>>, <<"name", Null>>,
   <<"name", Obj(<<<<"ne", Null>>>>)>>,
   <<"id", Arr(<<Num(1), Num(2)>>)>>, <<"id", Arr(<<>>)>>,
   <<"id", Obj(<<<<"gte", Num(1)>>, <<"lt", Num(2)>>>>)>>,
   <<"posts.title", Str("p")>>, <<"posts.title", Arr(<<>>)>>}
\* entries of a filter expression of count
CountFilterEntries == {e \in MainFilterEntries : e[1] \in Columns}
\* filter expressions: no key twice
FiltersOver(entries) ==
  {f \in SeqsUpTo(entries, MaxFilters) :
     \A i, j \in 1 .. Len(f) : f[i][1] = f[j][1] => i = j}

\* the relation posts with the filters given, with or without foreign key
PostsWith(foreignKey, filters) ==
  ObjOf(<<<<"table", Str(RelTable)>>, <<"foreignKey", foreignKey>>,
          <<"select", Arr(<<"user_id", "title">>)>>, <<"filters", filters>>>>)
EmptyTitle == Obj(<<<<"title", Arr(<<>>)>>>>)
TitleP == Obj(<<<<"title", Str("p")>>>>)
RelationLists ==
  {<<>>,
   <<PostsWith(Str("user_id"), Undef)>>,
   <<PostsWith(Str("user_id"), EmptyTitle)>>,
   <<PostsWith(Str("user_id"), TitleP)>>,
   <<PostsWith(Undef, EmptyTitle), PostsWith(Str("user_id"), Undef)>>,
   <<PostsWith(Str("user_id"), Undef), PostsWith(Str("user_id"), TitleP)>>}

\* the argument of findAll made of the three parts
OptionsOf(filters, relations, search) ==
  ObjOf(<<<<"filters", Obj(filters)>>,
          <<"relations", IF Len(relations) = 0 THEN Undef ELSE Arr(relations)>>,
          <<"search", search>>>>)

WhereInit ==
  /\ revision = RevA /\ useCache = FALSE /\ db = {} /\ cache = <<>>
  /\ proc = [p \in AllProcs |-> IdleProc]
  /\ faults = 0
  /\ expected = NothingExpected
  /\ \/ \E f \in FiltersOver(MainFilterEntries), r \in RelationLists,
          s \in {Undef, Str("a")}, legacy \in BOOLEAN :
         /\ legacy => Len(r) = 0 /\ s = Undef /\ Len(f) > 0
         /\ calc = [fn |-> "findAll", done |-> FALSE, filters |-> f,
                    relations |-> r, search |-> s,
                    options |-> IF legacy THEN Obj(f) ELSE OptionsOf(f, r, s)]
     \/ \E f \in FiltersOver(CountFilterEntries) :
         calc = [fn |-> "count", done |-> FALSE, filters |-> f]

\* what the backend answers to a SELECT on the sample table
Answer(st) ==
  IF Refused(SampleDb, st) THEN [ok |-> FALSE, rows |-> <<>>]
  ELSE [ok |-> TRUE, rows |-> ExecRows(SampleDb, st)]

FindAllStatements(inp, count, data) ==
  [fn |-> "findAll", done |-> TRUE, filters |-> inp.filters,
   relations |-> inp.relations, search |-> inp.search, options |-> inp.options,
   count |-> count, data |-> data,
   counted |-> Answer(count), found |-> Answer(data)]

\* findAll: the COUNT and the DATA statement it builds, run on the table
ApplyFindAllWhere ==
  /\ calc.fn = "findAll" /\ ~calc.done
  /\ calc' = FindAllStatements(calc, FindAllCountQuery(Normalize(calc.options)),
                               FindAllDataQuery(Normalize(calc.options)))
  /\ UNCHANGED <<revision, useCache, db, cache, proc, faults, expected>>

CountStatements(inp, count) ==
  [fn |-> "count", done |-> TRUE, filters |-> inp.filters,
   count |-> count, counted |-> Answer(count)]

\* count: the statement it builds, run on the table
ApplyCountWhere ==
  /\ calc.fn = "count" /\ ~calc.done
  /\ calc' = CountStatements(calc, CountQuery(calc.filters))
  /\ UNCHANGED <<revision, useCache, db, cache, proc, faults, expected>>

WhereNext == ApplyFindAllWhere \/ ApplyCountWhere
WhereSpec == WhereInit /\ [][WhereNext]_vars

\* ------------------------------------ invalidateTableCache, twice in a row
\* entries a cache may hold before the first call: two of this table, one
\* of another table
OtherKey == [table |-> "posts", operation |-> "count", args |-> [json |-> <<>>]]
HeldKeys ==
  {BuildCacheKey("findById", <<<<"id", Num(1)>>>>),
   BuildCacheKey("count", <<<<"filters", Obj(<<>>)>>>>), OtherKey}
HeldCaches == {[k \in ks |-> NumToString(1)] : ks \in SUBSET HeldKeys}

\* invalidateTableCache from its cache.del on, given whether the call succeeds
RunFromKeys(c, pr, okDel) ==
  IF pr.pc = "inv" /\ pr.t.inv = "del"
  THEN [cache |-> IF okDel THEN CacheDel(c, pr.t.listed) ELSE c,
        proc |-> AfterDelKeys(pr, okDel)]
  ELSE [cache |-> c, proc |-> pr]

\* one call of invalidateTableCache run to its end on cache c, nothing else
\* running; okKeys, okDel: whether cache.keys and cache.del succeed
InvalidateRun(c, okKeys, okDel) ==
  IF ~useCache
  THEN [cache |-> c, proc |-> Resolve(Begin("invalidateTableCache", <<>>), Undef)]
  ELSE RunFromKeys(c,
         AfterKeys(StartInvalidate(Begin("invalidateTableCache", <<>>), Undef, FALSE),
                   okKeys, CacheKeys(c, Table \o ":*")),
         okDel)

TwiceInit ==
  /\ revision \in {RevA, RevB}
  /\ useCache \in BOOLEAN
  /\ db = {} /\ cache = <<>>
  /\ proc = [p \in AllProcs |-> IdleProc]
  /\ faults = 0
  /\ expected = NothingExpected
  /\ \E c \in HeldCaches, ok \in [1 .. 4 -> BOOLEAN] :
       calc = [fn |-> "twice", calls |-> 0, held |-> c, ok |-> ok]

FirstInvalidate ==
  /\ calc.fn = "twice" /\ calc.calls = 0
  /\ calc' = [fn |-> "twice", calls |-> 1, held |-> calc.held, ok |-> calc.ok,
              first |-> InvalidateRun(calc.held, calc.ok[1], calc.ok[2])]
  /\ UNCHANGED <<revision, useCache, db, cache, proc, faults, expected>>

SecondInvalidate ==
  /\ calc.fn = "twice" /\ calc.calls = 1
  /\ calc' = [fn |-> "twice", calls |-> 2, held |-> calc.held, ok |-> calc.ok,
              first |-> calc.first,
              second |-> InvalidateRun(calc.first.cache, calc.ok[3], calc.ok[4])]
  /\ UNCHANGED <<revision, useCache, db, cache, proc, faults, expected>>

TwiceNext == FirstInvalidate \/ SecondInvalidate
TwiceSpec == TwiceInit /\ [][TwiceNext]_vars

\* ------------------------------------------------- the cache keys alone
\* filter expressions two callers may write: the same pairs in any order
KeyFilterEntries ==
  {<<"name", Str("a")>>, <<"name", Str("b")>>, <<"id", Num(1)>>, <<"id", Num(2)>>}

KeyInit ==
  /\ revision = RevA /\ useCache = TRUE /\ db = {} /\ cache = <<>>
  /\ proc = [p \in AllProcs |-> IdleProc]
  /\ faults = 0
  /\ expected = NothingExpected
  /\ \E op \in {"findAll", "count"}, f1, f2 \in FiltersOver(KeyFilterEntries) :
       calc = [fn |-> "keys", done |-> FALSE, op |-> op, filters1 |-> f1, filters2 |-> f2]

\* the cache key the operation computes on entry for the filters given
KeyOf(op, filters) ==
  IF op = "count" THEN CountEnter(Begin("count", [filters |-> filters])).key
  ELSE FindAllEnter(Begin("findAll",
                          [options |-> OptionsOf(filters, <<>>, Undef)])).key

\* the two calls compute their keys; the first stores its result under its
\* key, the second reads under its own
ApplyBuildKeys ==
  /\ calc.fn = "keys" /\ ~calc.done
  /\ calc' = [fn |-> "keys", done |-> TRUE, op |-> calc.op,
              filters1 |-> calc.filters1, filters2 |-> calc.filters2,
              key1 |-> KeyOf(calc.op, calc.filters1),
              key2 |-> KeyOf(calc.op, calc.filters2),
              read |-> CacheGet(CacheSet(<<>>, KeyOf(calc.op, calc.filters1),
                                         NumToString(1)),
                                KeyOf(calc.op, calc.filters2))]
  /\ UNCHANGED <<revision, useCache, db, cache, proc, faults, expected>>

KeyNext == ApplyBuildKeys
KeySpec == KeyInit /\ [][KeyNext]_vars

\* -------------------------------------------------- the joins alone
MaxRelations == 2

\* relation specs on the table posts
RelationSpecs ==
  {ObjOf(<<<<"table", table>>, <<"foreignKey", foreignKey>>, <<"type", type>>,
           <<"select", select>>, <<"filters", filters>>>>) :
     table \in {Undef, Str(RelTable)}, foreignKey \in {Undef, Str("user_id")},
     type \in {Undef, Str("inner"), Str("left"), Str("right"), Str("many")},
     select \in {Undef, Arr(<<"title">>)}, filters \in {Undef, TitleP}}

JoinInit ==
  /\ revision = RevA /\ useCache = FALSE /\ db = {} /\ cache = <<>>
  /\ proc = [p \in AllProcs |-> IdleProc]
  /\ faults = 0
  /\ expected = NothingExpected
  /\ \E r \in SeqsUpTo(RelationSpecs, MaxRelations) :
       calc = [fn |-> "joins", done |-> FALSE, relations |-> r]

\* findAll({relations}): the DATA statement it builds
ApplyJoins ==
  /\ calc.fn = "joins" /\ ~calc.done
  /\ calc' = [fn |-> "joins", done |-> TRUE, relations |-> calc.relations,
              data |-> FindAllDataQuery(Normalize(OptionsOf(<<>>, calc.relations, Undef)))]
  /\ UNCHANGED <<revision, useCache, db, cache, proc, faults, expected>>

JoinNext == ApplyJoins
JoinSpec == JoinInit /\ [][JoinNext]_vars

\* ------------------------------------------- operator objects alone
MaxOps == 2

\* the operators of an operator object, "eq" standing for an unrecognized one
Operators == {"gt", "lt", "gte", "lte", "ne", "like", "ilike", "eq"}
Operands == {Null, Num(1), Str("a")}
\* operator objects: no operator twice
OperatorObjects ==
  {o \in SeqsUpTo(Operators \X Operands, MaxOps) :
     /\ Len(o) > 0
     /\ \A i, j \in 1 .. Len(o) : o[i][1] = o[j][1] => i = j}

\* findAll and count are given one filter entry, an operator object on name
OperatorInit ==
  /\ revision = RevA /\ useCache = FALSE /\ db = {} /\ cache = <<>>
  /\ proc = [p \in AllProcs |-> IdleProc]
  /\ faults = 0
  /\ expected = NothingExpected
  /\ \E o \in OperatorObjects :
       \/ calc = [fn |-> "findAll", done |-> FALSE,
                  filters |-> << <<"name", Obj(o)>> >>, relations |-> <<>>,
                  search |-> Undef,
                  options |-> OptionsOf(<< <<"name", Obj(o)>> >>, <<>>, Undef)]
       \/ calc = [fn |-> "count", done |-> FALSE,
                  filters |-> << <<"name", Obj(o)>> >>]

OperatorSpec == OperatorInit /\ [][WhereNext]_vars

\* ------------------------------------------- a writer and a reader at once
\* two callers of one model: the first updates and runs transactions, the
\* second reads by primary key; their awaits interleave freely
Writer == "writer"
Reader == "reader"

\* the table holds one record when the two start
ConcurrentInit ==
  /\ revision \in {RevA, RevB}
  /\ useCache = TRUE
  /\ db = {[id |-> Num(1), name |-> Str("a")]}
  /\ cache = <<>>
  /\ proc = [p \in {Writer, Reader} |-> IdleProc]
  /\ faults = 0
  /\ expected = NothingExpected
  /\ calc = NoCalc

WriterStep ==
  \/ CallUpdate(Writer) \/ UpdateQueryStep(Writer)
  \/ InvalidateDelOne(Writer) \/ InvalidateKeys(Writer) \/ InvalidateDelKeys(Writer)
  \/ CallWithTransaction(Writer) \/ TxBegin(Writer) \/ TxStatement(Writer)
  \/ TxThrow(Writer) \/ TxCallbackDone(Writer) \/ TxRollback(Writer)
  \/ TxCommit(Writer)
  \/ Return(Writer)

ReaderStep ==
  \/ CallFindById(Reader) \/ FindByIdCacheGet(Reader) \/ FindByIdQueryStep(Reader)
  \/ FindByIdCacheSet(Reader)
  \/ Return(Reader)

ConcurrentNext == WriterStep \/ ReaderStep \/ Expire
ConcurrentSpec == ConcurrentInit /\ [][ConcurrentNext]_vars

\* ------------------------------------------- two models on one cache
\* createORM hands every model the same cache adapter. The model of the
\* table users runs as before; a second model, of the table posts, reads
\* and writes its table, each of its operations taken as a whole and
\* without failure.
MaxWrites == 2
Titles == {"p", "q"}

\* _buildCacheKey of the model of posts
RelCacheKey(operation, params) ==
  [BuildCacheKey(operation, params) EXCEPT !.table = RelTable]
RelFindByIdKey(i) == RelCacheKey("findById", <<<<"id", Num(i)>>>>)
\* invalidateTableCache of the model of posts: keys(`posts:*`), then del
RelInvalidate(c) == CacheDel(c, CacheKeys(c, RelTable \o ":*"))

SharedInit ==
  /\ revision \in {RevA, RevB}
  /\ useCache = TRUE
  /\ db = {[id |-> Num(1), name |-> Str("a")]}
  /\ cache = <<>>
  /\ proc = [p \in AllProcs |-> IdleProc]
  /\ faults = 0
  /\ expected = NothingExpected
  /\ calc = [fn |-> "shared", posts |-> FixedPosts, writes |-> 0]

\* posts.findById(i): a miss reads the table and stores the record found
RelFindById ==
  /\ \A p \in AllProcs : Free(p)
  /\ \E i \in Ids, r \in calc.posts :
       /\ r.id = Num(i)
       /\ RelFindByIdKey(i) \notin DOMAIN cache
       /\ cache' \in Stored(cache, RelFindByIdKey(i), JSONstringify(r))
  /\ UNCHANGED <<calc, revision, useCache, db, proc, faults, expected>>

\* posts.create(data): INSERT, then invalidateTableCache
RelCreate ==
  /\ \A p \in AllProcs : Free(p)
  /\ calc.writes < MaxWrites
  /\ \E i \in 1 .. MaxId + 1, t \in Titles :
       /\ \A r \in calc.posts : r.id # Num(i)
       /\ calc' = [calc EXCEPT
            !.posts = @ \cup {[id |-> Num(i), user_id |-> Num(1), title |-> Str(t)]},
            !.writes = @ + 1]
  /\ cache' = RelInvalidate(cache)
  /\ UNCHANGED <<revision, useCache, db, proc, faults, expected>>

\* posts.update(id, data): UPDATE, then cache.del of the findById key and
\* invalidateTableCache
RelUpdate ==
  /\ \A p \in AllProcs : Free(p)
  /\ calc.writes < MaxWrites
  /\ \E i \in 1 .. MaxId + 1, t \in Titles :
       /\ calc' = [calc EXCEPT
            !.posts = {IF r.id = Num(i) THEN [r EXCEPT !.title = Str(t)] ELSE r : r \in @},
            !.writes = @ + 1]
       /\ cache' = CacheDel(RelInvalidate(cache), {RelFindByIdKey(i)})
  /\ UNCHANGED <<revision, useCache, db, proc, faults, expected>>

\* posts.delete(id): DELETE, then the same invalidation
RelDelete ==
  /\ \A p \in AllProcs : Free(p)
  /\ calc.writes < MaxWrites
  /\ \E i \in 1 .. MaxId + 1 :
       /\ calc' = [calc EXCEPT !.posts = {r \in @ : r.id # Num(i)}, !.writes = @ + 1]
       /\ cache' = CacheDel(RelInvalidate(cache), {RelFindByIdKey(i)})
  /\ UNCHANGED <<revision, useCache, db, proc, faults, expected>>

SharedStep(p) ==
  \/ CallFindAll(p) \/ FindAllCacheGet(p) \/ FindAllCountStep(p) \/ FindAllDataStep(p)
  \/ FindAllRelationStep(p) \/ FindAllCacheSet(p)
  \/ Return(p)

SharedNext ==
  \/ \E p \in Callers : SharedStep(p)
  \/ RelFindById \/ RelCreate \/ RelUpdate \/ RelDelete
  \/ Expire
SharedSpec == SharedInit /\ [][SharedNext]_vars

\* ------------------------------------------- two calls of findAll compared
NameA == Obj(<<<<"name", Str("a")>>>>)
PageOne == Obj(<<<<"page", Num(1)>>>>)
\* arguments of findAll: a legacy call, the structured call of the same
\* filter with its other options null or absent, calls with a page
PairOptions ==
  {NameA,
   Obj(<<<<"filters", NameA>>, <<"sort", Null>>, <<"fields", Null>>,
         <<"pagination", Null>>, <<"search", Null>>, <<"relations", Null>>>>),
   Obj(<<<<"filters", NameA>>>>),
   Obj(<<<<"pagination", PageOne>>>>),
   Obj(<<<<"filters", NameA>>, <<"pagination", PageOne>>>>),
   Obj(<<<<"pagination", Obj(<<<<"page", Num(1)>>, <<"limit", Num(MaxCfgLimit)>>>>)>>>>)}
\* what the constructors of the two models are given as limits
PairLimits == {Undef, Num(1), Num(MaxCfgLimit)}
ModelConfigs ==
  {[defaultLimit |-> ConfiguredLimit(dl, DefaultLimit),
    maxLimit |-> ConfiguredLimit(ml, MaxLimit)] : dl \in PairLimits, ml \in PairLimits}

PairInit ==
  /\ revision = RevA /\ useCache = FALSE /\ db = {} /\ cache = <<>>
  /\ proc = [p \in AllProcs |-> IdleProc]
  /\ faults = 0
  /\ expected = NothingExpected
  /\ \E o1 \in PairOptions, o2 \in PairOptions, m1 \in ModelConfigs, m2 \in ModelConfigs :
       calc = [fn |-> "pair", done |-> FALSE,
               options |-> <<o1, o2>>, models |-> <<m1, m2>>]

\* the statements of findAll on a model of the limits given: the COUNT
\* statement when one is issued, and the DATA statement
StatementsOf(q, c, model) ==
  [count |-> IF FirstStatement(q) = "fa_count" THEN <<CountStatement(c)>> ELSE <<>>,
   data |-> DataStatement(q, [c EXCEPT !.paging = PagingWith(q, model.defaultLimit,
                                                            model.maxLimit)])]
\* one call: its cache key and its statements
CallOf(q, model) ==
  [key |-> FindAllKey(q), statements |-> StatementsOf(q, Compile(q), model)]

\* the two calls, each on its model
ApplyPair ==
  /\ calc.fn = "pair" /\ ~calc.done
  /\ calc' = [fn |-> "pair", done |-> TRUE, options |-> calc.options,
              models |-> calc.models,
              calls |-> [i \in 1 .. 2 |->
                           CallOf(Normalize(calc.options[i]), calc.models[i])]]
  /\ UNCHANGED <<revision, useCache, db, cache, proc, faults, expected>>

PairNext == ApplyPair
PairSpec == PairInit /\ [][PairNext]_vars

\* ----------------------------------------------------------- properties
ReadOps == {"findAll", "findById", "findByField", "count"}
WriteOps == {"create", "update", "delete"}
DbEvents(pr) == {i \in 1 .. Len(pr.log) : pr.log[i].ev = "db"}
CacheEvents(pr) ==
  {i \in 1 .. Len(pr.log) :
     pr.log[i].ev \in {"cache.get", "cache.set", "cache.del", "cache.keys"}}
EventsOf(pr, ev) == {i \in 1 .. Len(pr.log) : pr.log[i].ev = ev}
FailedIn(pr, S) == {i \in S : ~pr.log[i].ok}
Settled(pr) == pr.pc = "done"
\* the first call of the operation was a cache read that found an entry
CacheHit(pr) ==
  /\ Len(pr.log) >= 1 /\ pr.log[1].ev = "cache.get"
  /\ pr.log[1].ok /\ pr.log[1].result # Null
\* the value an entry decodes to: parseInt for count, JSON.parse otherwise
Decoded(pr, entry) == IF pr.kind = "count" THEN Num(entry.str) ELSE entry.json

\* C1: in findAll, findById, findByField and count with useCache, a cache
\* read that finds an entry under the call's key ends the operation: it
\* resolves with the decoded entry and issues no backend statement.
C1_CacheHitShortCircuits ==
  \A p \in AllProcs :
    LET pr == proc[p] IN
      (pr.kind \in ReadOps /\ CacheHit(pr)) =>
        /\ useCache
        /\ pr.log[1].key = pr.key
        /\ Settled(pr) /\ pr.outcome = "resolved"
        /\ pr.result = Decoded(pr, pr.log[1].result)
        /\ DbEvents(pr) = {} /\ Len(pr.log) = 1

C1_Witness ==
  \E p \in AllProcs :
    /\ proc[p].kind = "findAll" /\ CacheHit(proc[p]) /\ Settled(proc[p])
    /\ Len(proc[p].result.data) > 0

\* C2: with useCache, a failed cache call never makes findAll, findById,
\* findByField, count, create, update or delete reject.
C2_CacheFailureNeverRejects ==
  \A p \in AllProcs :
    LET pr == proc[p] IN
      (/\ useCache /\ pr.kind \in ReadOps \cup WriteOps /\ Settled(pr)
       /\ FailedIn(pr, CacheEvents(pr)) # {} /\ FailedIn(pr, DbEvents(pr)) = {})
        => pr.outcome = "resolved"

\* C3: an operation one of whose backend statements failed rejects with the
\* error of that statement; it never resolves.
C3_BackendFailureRejects ==
  \A p \in AllProcs :
    LET pr == proc[p] IN
      (Settled(pr) /\ FailedIn(pr, DbEvents(pr)) # {}) =>
        /\ pr.outcome = "rejected"
        /\ pr.error.type = "db" /\ pr.error.at \in FailedIn(pr, DbEvents(pr))

\* the operation issued its INSERT, UPDATE or DELETE
Wrote(pr) == \E i \in DbEvents(pr) : pr.log[i].stmt.verb \in {"INSERT", "UPDATE", "DELETE"}
\* the invalidation listed `${table}:*` and deleted every key listed
ListedAndDeleted(pr) ==
  /\ \E i \in EventsOf(pr, "cache.keys") : pr.log[i].pattern = Table \o ":*"
  /\ \A i \in EventsOf(pr, "cache.keys") :
       pr.log[i].result # {} =>
         \E j \in EventsOf(pr, "cache.del") : j > i /\ pr.log[j].keys = pr.log[i].result
\* create, update or delete resolved and every call it made succeeded
WriteSucceeded(pr) ==
  /\ pr.kind \in WriteOps /\ Settled(pr) /\ pr.outcome = "resolved"
  /\ FailedIn(pr, DbEvents(pr) \cup CacheEvents(pr)) = {}

\* C4 as stated: with useCache and a working cache, when create, update or
\* delete completes successfully the cache holds no key of the table, and
\* the invalidation listed `${table}:*` and deleted every key listed.
C4_NoKeyAfterWrite ==
  \A p \in AllProcs :
    (useCache /\ WriteSucceeded(proc[p])) =>
      /\ CacheKeys(cache, Table \o ":*") = {}
      /\ ListedAndDeleted(proc[p])

\* C4, amended: the same, for a create, update or delete that issued its
\* write statement (delete(id, true) of an absent record issues none and
\* leaves the cache alone).
C4_NoKeyAfterWriteStatement ==
  \A p \in AllProcs :
    (useCache /\ WriteSucceeded(proc[p]) /\ Wrote(proc[p])) =>
      /\ CacheKeys(cache, Table \o ":*") = {}
      /\ ListedAndDeleted(proc[p])

C4_Witness ==
  \E p \in AllProcs :
    /\ useCache /\ WriteSucceeded(proc[p]) /\ Wrote(proc[p])
    /\ proc[p].kind = "update"
    /\ \E j \in EventsOf(proc[p], "cache.del") : Cardinality(proc[p].log[j].keys) > 1

\* whether a findById result is what the last write to the id promised
Promised(e, result) ==
  IF e.kind = "record" THEN result = e.v
  ELSE IF e.kind = "data"
  THEN result # Null /\ \A i \in 1 .. Len(e.v) : result[e.v[i][1]] = e.v[i][2]
  ELSE IF e.kind = "deleted" THEN result = Null
  ELSE TRUE

\* C5: in a sequential history with caching and no failures, findById(id)
\* returns the record the last create of that id returned, a record holding
\* the data of the last update of that id, or null after its delete.
C5_RoundTrip ==
  \A p \in AllProcs :
    LET pr == proc[p] IN
      (/\ useCache /\ faults = 0 /\ pr.kind = "findById" /\ Settled(pr)
       /\ pr.a.id.v \in Ids)
        => pr.outcome = "resolved" /\ Promised(expected[pr.a.id.v], pr.result)

C5_Witness ==
  \E p \in AllProcs :
    /\ useCache /\ faults = 0 /\ proc[p].kind = "findById" /\ Settled(proc[p])
    /\ proc[p].a.id.v \in Ids
    /\ expected[proc[p].a.id.v].kind = "data"
    /\ proc[p].result # Null

\* C6: withTransaction with caching: when it resolves the table cache was
\* invalidated exactly once; when it rejects no invalidation was performed
\* and the caller has the error.
C6_InvalidateOnlyOnSuccess ==
  \A p \in AllProcs :
    LET pr == proc[p] IN
      (useCache /\ pr.kind = "withTransaction" /\ Settled(pr)) =>
        /\ pr.outcome = "resolved" => Cardinality(EventsOf(pr, "cache.keys")) = 1
        /\ pr.outcome = "rejected" =>
             CacheEvents(pr) = {} /\ pr.error # NoError

\* a payload that is null, not an object, or empty; an id that is missing
InvalidPayload(data) == data.ty # "object" \/ Len(data.v) = 0
MissingId(id) == id \in {Null, Undef, Num(0), Str("")}
\* the arguments of a call that validation must refuse
InvalidCall(pr) ==
  \/ pr.kind = "create" /\ InvalidPayload(pr.a.data)
  \/ pr.kind = "update" /\ (MissingId(pr.a.id) \/ InvalidPayload(pr.a.data))
  \/ pr.kind = "delete" /\ MissingId(pr.a.id)

\* C7: create with a null, non-object or empty payload, update with a
\* missing id or such a payload, and delete with a missing id fail with a
\* validation error before any backend statement or cache call; the step
\* that makes the call leaves the backend and the cache as they were.
C7_ValidationBeforeIO ==
  [][\A p \in AllProcs :
       (proc[p].pc = "idle" /\ proc'[p].pc # "idle" /\ InvalidCall(proc'[p])) =>
         /\ proc'[p].pc = "done" /\ proc'[p].outcome = "rejected"
         /\ proc'[p].error.type = "validation"
         /\ proc'[p].log = <<>>
         /\ db' = db /\ cache' = cache]_vars

C7_Witness ==
  \E p \in AllProcs :
    /\ proc[p].kind = "update" /\ InvalidCall(proc[p])
    /\ Settled(proc[p]) /\ proc[p].outcome = "rejected"
    /\ CacheKeys(cache, Table \o ":*") # {} /\ db # {}

\* the COUNT and the DATA statement among the statements findAll issued
IsCountStmt(st) == Len(st.select) = 1 /\ st.select[1] \in CountSelects
CountEvents(pr) == {i \in DbEvents(pr) : IsCountStmt(pr.log[i].stmt)}
DataEvents(pr) ==
  {i \in DbEvents(pr) : ~IsCountStmt(pr.log[i].stmt) /\ pr.log[i].stmt.alias = MainAlias}
\* pagination was supplied, or the argument holds none of the query keys
NeedsCount(options) ==
  \/ Has(options.v, "pagination") /\ ~Falsy(Get(options.v, "pagination"))
  \/ \A i \in 1 .. Len(options.v) : options.v[i][1] \notin QueryKeys

\* C8: a findAll that missed the cache issues the COUNT statement exactly
\* once when pagination was supplied or the call is legacy and never
\* otherwise, issues the DATA statement exactly once, the COUNT statement
\* first, and hands both the same WHERE clause and the same parameter list.
C8_CountThenData ==
  \A p \in AllProcs :
    LET pr == proc[p] IN
      (pr.kind = "findAll" /\ ~CacheHit(pr)) =>
        /\ Cardinality(CountEvents(pr)) <= 1 /\ Cardinality(DataEvents(pr)) <= 1
        /\ CountEvents(pr) # {} => NeedsCount(pr.a.options)
        /\ \A d \in DataEvents(pr) :
             /\ NeedsCount(pr.a.options) => CountEvents(pr) # {}
             /\ \A c \in CountEvents(pr) :
                  /\ c < d
                  /\ pr.log[c].stmt.where = pr.log[d].stmt.where
                  /\ pr.log[c].stmt.params = pr.log[d].stmt.params
        /\ (Settled(pr) /\ pr.outcome = "resolved") => DataEvents(pr) # {}

C8_Witness ==
  \E p \in AllProcs :
    /\ proc[p].kind = "findAll" /\ Settled(proc[p]) /\ proc[p].outcome = "resolved"
    /\ CountEvents(proc[p]) # {} /\ DataEvents(proc[p]) # {}
    /\ \E d \in DataEvents(proc[p]) : Len(proc[p].log[d].stmt.params) > 0

\* C9: findAll with caching reads the cache before every backend
\* statement, writes the cache only after all its backend statements
\* succeeded, stores exactly the result it returns, and writes nothing
\* when a backend statement failed.
C9_ReadStatementsWrite ==
  \A p \in AllProcs :
    LET pr == proc[p] IN
      (useCache /\ pr.kind = "findAll") =>
        /\ DbEvents(pr) # {} => pr.log[1].ev = "cache.get"
        /\ \A s \in EventsOf(pr, "cache.set") :
             /\ \A i \in DbEvents(pr) : i < s /\ pr.log[i].ok
             /\ (Settled(pr) /\ pr.outcome = "resolved") =>
                  pr.log[s].value.json = pr.result
        /\ FailedIn(pr, DbEvents(pr)) # {} => EventsOf(pr, "cache.set") = {}

\* C10: the pagination block built from a total: with a limit in effect
\* pages is the least number of pages of that limit holding total rows and
\* hasNext says whether (page-1)*limit + limit < total; with none, pages is
\* 1 and hasNext is false.
C10_PaginationMetadata ==
  (calc.fn = "pagination" /\ calc.done) =>
    LET out == calc.out
        supplied == Has(calc.options.v, "pagination")
    IN IF supplied
       THEN /\ out.limit >= 1 /\ out.page >= 1
            /\ out.pages * out.limit >= calc.total
            /\ (out.pages - 1) * out.limit < calc.total \/ out.pages = 0
            /\ out.pages >= 0
            /\ out.hasNext = ((out.page - 1) * out.limit + out.limit < calc.total)
       ELSE out.pages = 1 /\ out.hasNext = FALSE

C10_Witness ==
  /\ calc.fn = "pagination" /\ calc.done
  /\ Has(calc.options.v, "pagination")
  /\ calc.out.hasNext /\ calc.out.pages = 3 /\ calc.out.page = 2

\* C11: a findAll call that supplies pagination, on a model of any
\* configuration, uses a page of at least 1 and a limit within 1..maxLimit
\* (also when the limit is absent and defaultLimit is used), and emits
\* LIMIT limit OFFSET (page-1)*limit.
C11_LimitWithinMax ==
  (calc.fn = "paging" /\ calc.done) =>
    /\ calc.out.page >= 1
    /\ calc.out.limit >= 1 /\ calc.out.limit <= calc.maxLimit
    /\ calc.limitClause = Num(calc.out.limit)
    /\ calc.offsetClause = Num((calc.out.page - 1) * calc.out.limit)

\* the argument is not an object, or is one none of whose keys is a query key
NoQueryKey(o) ==
  \/ o.ty \notin {"object", "array"}
  \/ o.ty = "array"
  \/ \A i \in 1 .. Len(o.v) :
       o.v[i][1] \notin {"filters", "sort", "fields", "pagination", "search", "relations"}

\* C12: findAll takes its argument as a legacy call exactly when it is not
\* an object or none of its keys is filters, sort, fields, pagination,
\* search or relations; a legacy call filters by the whole argument (one
\* equality per entry, its value bound), issues the COUNT statement first,
\* and reports limit = total and pages = 1.
C12_LegacyCall ==
  (calc.fn = "plan" /\ calc.done) =>
    /\ calc.query.legacy <=> NoQueryKey(calc.options)
    /\ NoQueryKey(calc.options) =>
         /\ calc.query.filters = calc.options
         /\ calc.query.pagination = Null
         /\ calc.first = "fa_count"
         /\ calc.pagination.limit = calc.total /\ calc.pagination.pages = 1
         /\ calc.options.ty = "object" =>
              /\ calc.data.where =
                   [i \in 1 .. Len(calc.options.v) |->
                      <<"t1." \o calc.options.v[i][1], "=", "?">>]
              /\ calc.data.params =
                   [i \in 1 .. Len(calc.options.v) |-> calc.options.v[i][2]]
         /\ calc.data.limit = Null

C12_Witness ==
  /\ calc.fn = "plan" /\ calc.done /\ calc.query.legacy
  /\ calc.options.ty = "object" /\ Len(calc.options.v) = 2
  /\ Len(calc.data.params) = 2 /\ calc.total = 3 /\ calc.pagination.limit = 3

\* the reassembly has returned its entities
ReassemblyDone == calc.fn = "reassemble" /\ calc.done /\ calc.out.ok

\* C13: after reassembly every non-null output record holds, under the `as`
\* key of every declared relation, an array when the relation is of type
\* many and a value that is not an array otherwise.
C13_RelationShape ==
  ReassemblyDone =>
    \A i \in 1 .. Len(calc.out.data) : calc.out.data[i] # Null =>
      \A r \in 1 .. Len(calc.rels) :
        /\ AsOf(calc.rels[r]) \in DOMAIN calc.out.data[i]
        /\ IsMany(calc.rels[r]) <=>
             calc.out.data[i][AsOf(calc.rels[r])].ty = "array"

\* the input holds no data of the relation for the record: no row of the
\* record carries a column of the relation, or no fetched row refers to it
NoRelationData(record, rel) ==
  IF revision = RevB
  THEN /\ calc.fetched[1].ok
       /\ \A j \in 1 .. Len(calc.fetched[1].rows) :
            calc.fetched[1].rows[j][ForeignKeyOf(rel)] # RowId(record)
  ELSE \A j \in 1 .. Len(calc.rawData) :
         (calc.rawData[j] # Null /\ RowId(calc.rawData[j]) = RowId(record)) =>
           \A f \in {"title", "body"} :
             (AsOf(rel) \o "." \o f) \notin DOMAIN calc.rawData[j]

\* the value is {} for a single relation, [] for a many relation
IsEmptyOf(value, rel) ==
  IF IsMany(rel) THEN value.ty = "array" /\ Len(value.v) = 0
  ELSE value.ty = "record" /\ DOMAIN value.v = {}

\* C14: when the input holds no relation data for a primary record, the
\* reassembly sets the relation's value to an empty object (single relation)
\* or an empty array (many relation), never to null.
C14_EmptyWhenNoData ==
  ReassemblyDone =>
    \A i \in 1 .. Len(calc.out.data) : calc.out.data[i] # Null =>
      \A r \in 1 .. Len(calc.rels) :
        NoRelationData(calc.out.data[i], calc.rels[r]) =>
          /\ AsOf(calc.rels[r]) \in DOMAIN calc.out.data[i]
          /\ IsEmptyOf(calc.out.data[i][AsOf(calc.rels[r])], calc.rels[r])

\* every input row is a record that carries its primary key
AllKeyed ==
  \A i \in 1 .. Len(calc.rawData) :
    calc.rawData[i] # Null /\ RowId(calc.rawData[i]) # Undef

\* the first input row with the primary key of the entity
FirstRowOf(entity) ==
  calc.rawData[CHOOSE i \in 1 .. Len(calc.rawData) :
                 /\ RowId(calc.rawData[i]) = RowId(entity)
                 /\ \A j \in 1 .. i - 1 : RowId(calc.rawData[j]) # RowId(entity)]

\* C15: the reassembly outputs exactly as many entities as there are
\* distinct primary-key values among its input rows; rows repeating a key
\* collapse into one entity with the base fields of the first such row.
C15_OneEntityPerKey ==
  (calc.fn = "reassemble" /\ calc.done /\ AllKeyed) =>
    /\ calc.out.ok
    /\ Len(calc.out.data) =
         Cardinality({RowId(calc.rawData[i]) : i \in 1 .. Len(calc.rawData)})
    /\ \A k \in 1 .. Len(calc.out.data) :
         /\ \E i \in 1 .. Len(calc.rawData) :
              RowId(calc.rawData[i]) = RowId(calc.out.data[k])
         /\ \A f \in {"id", "name"} :
              calc.out.data[k][f] = FirstRowOf(calc.out.data[k])[f]

\* C16: the reassembly is a no-op on null entries: the output has null at
\* each position where the input has null, the records around it (those
\* that carry their primary key) are still reassembled, and no error is
\* raised.
C16_NullPassThrough ==
  (/\ calc.fn = "reassemble" /\ calc.done
   /\ \E i \in 1 .. Len(calc.rawData) : calc.rawData[i] = Null) =>
    /\ calc.out.ok
    /\ Len(calc.out.data) = Len(calc.rawData)
    /\ \A i \in 1 .. Len(calc.rawData) :
         IF calc.rawData[i] = Null THEN calc.out.data[i] = Null
         ELSE /\ calc.out.data[i] # Null
              /\ RowId(calc.rawData[i]) # Undef =>
                   \A r \in 1 .. Len(calc.rels) :
                     AsOf(calc.rels[r]) \in DOMAIN calc.out.data[i]

\* the raw values the input holds for the one selected field of the
\* relation and the record: on the joined rows of the record, or on the
\* fetched rows that refer to it
RawValues(record, rel) ==
  IF revision = RevB
  THEN {calc.fetched[1].rows[j][GetOr(rel.v, "select").v[1]] :
          j \in {n \in 1 .. Len(calc.fetched[1].rows) :
                   calc.fetched[1].rows[n][ForeignKeyOf(rel)] = RowId(record)}}
  ELSE {calc.rawData[j][AsOf(rel) \o "." \o GetOr(rel.v, "select").v[1]] :
          j \in {n \in 1 .. Len(calc.rawData) :
                   /\ calc.rawData[n] # Null
                   /\ RowId(calc.rawData[n]) = RowId(record)
                   /\ (AsOf(rel) \o "." \o GetOr(rel.v, "select").v[1])
                        \in DOMAIN calc.rawData[n]}}

\* relation data is present for the record
DataPresent(record, rel) ==
  /\ RawValues(record, rel) # {}
  /\ revision = RevB => calc.fetched[1].ok
  /\ revision # RevB =>
       \A n \in 1 .. Len(calc.rawData) :
         (calc.rawData[n] # Null /\ RowId(calc.rawData[n]) = RowId(record)) =>
           (AsOf(rel) \o "." \o GetOr(rel.v, "select").v[1]) \in DOMAIN calc.rawData[n]

\* C17: for a relation that is not of type many and has a one-element
\* select list, whenever relation data is present the value under `as` is
\* the raw value of that field, not an object.
C17_SingleFieldRaw ==
  ReassemblyDone =>
    \A k \in 1 .. Len(calc.out.data) : calc.out.data[k] # Null =>
      \A r \in 1 .. Len(calc.rels) :
        (/\ ~IsMany(calc.rels[r]) /\ SingleField(calc.rels[r])
         /\ DataPresent(calc.out.data[k], calc.rels[r])) =>
          /\ AsOf(calc.rels[r]) \in DOMAIN calc.out.data[k]
          /\ calc.out.data[k][AsOf(calc.rels[r])]
               \in RawValues(calc.out.data[k], calc.rels[r])

\* a filter value that is an empty sequence
IsEmptySeq(value) == value.ty = "array" /\ Len(value.v) = 0
\* a filter expression without its empty-sequence entries
WithoutEmpty(entries) == SelectSeq(entries, LAMBDA e : ~IsEmptySeq(e[2]))
EmptyCount(entries) == Len(entries) - Len(WithoutEmpty(entries))
\* the relation is joined: it names its table and its foreign key
IsJoined(rel) == ~Falsy(GetOr(rel.v, "table")) /\ ~Falsy(GetOr(rel.v, "foreignKey"))
RelFilters(rel) ==
  IF Falsy(GetOr(rel.v, "filters")) THEN <<>> ELSE GetOr(rel.v, "filters").v
StripRelation(rel) ==
  PostsWith(GetOr(rel.v, "foreignKey"),
            IF Falsy(GetOr(rel.v, "filters")) THEN Undef
            ELSE Obj(WithoutEmpty(RelFilters(rel))))
RECURSIVE EmptyInRelations(_)
\* the empty-sequence entries of the filters of the joined relations
EmptyInRelations(rels) ==
  IF Len(rels) = 0 THEN 0
  ELSE (IF IsJoined(rels[1]) THEN EmptyCount(RelFilters(rels[1])) ELSE 0)
         + EmptyInRelations(Tail(rels))
\* the call with every empty-sequence entry taken out of its filters
StrippedOptions ==
  IF IsLegacyCall(calc.options) THEN Obj(WithoutEmpty(calc.filters))
  ELSE OptionsOf(WithoutEmpty(calc.filters),
                 [i \in 1 .. Len(calc.relations) |-> StripRelation(calc.relations[i])],
                 calc.search)
\* the statement has one condition FALSE per empty-sequence entry, AND-joined
\* with the conditions and bound to the parameters of the statement built
\* without these entries
FalseFor(st, n, stripped) ==
  /\ Len(SelectSeq(st.where, LAMBDA c : c = <<"FALSE">>)) = n
  /\ SelectSeq(st.where, LAMBDA c : c # <<"FALSE">>) = stripped.where
  /\ st.params = stripped.params

\* C18: a filter expression of findAll (main table or joined relation) or of
\* count that holds a field whose value is an empty sequence yields the
\* literal condition FALSE, AND-joined with the other conditions, and no
\* parameter for that field; the statement matches no row.
C18_EmptySequenceIsFalse ==
  /\ (/\ calc.fn = "findAll" /\ calc.done
      /\ EmptyCount(calc.filters) + EmptyInRelations(calc.relations) > 0) =>
       /\ FalseFor(calc.data, EmptyCount(calc.filters) + EmptyInRelations(calc.relations),
                   FindAllDataQuery(Normalize(StrippedOptions)))
       /\ FalseFor(calc.count, EmptyCount(calc.filters) + EmptyInRelations(calc.relations),
                   FindAllCountQuery(Normalize(StrippedOptions)))
       /\ calc.found.ok => Len(calc.found.rows) = 0
       /\ calc.counted.ok => calc.counted.rows[1].total = Num(0)
  /\ (calc.fn = "count" /\ calc.done /\ EmptyCount(calc.filters) > 0) =>
       /\ FalseFor(calc.count, EmptyCount(calc.filters),
                   CountQuery(WithoutEmpty(calc.filters)))
       /\ calc.counted.ok => calc.counted.rows[1].count = Num(0)

C18_Witness ==
  /\ calc.fn = "findAll" /\ calc.done /\ calc.found.ok
  /\ Len(calc.relations) = 1 /\ EmptyCount(RelFilters(calc.relations[1])) = 1
  /\ Len(calc.filters) = 1 /\ calc.filters[1] = <<"name", Str("a")>>
  /\ calc.data.where = << <<"FALSE">>, <<"t1.name", "=", "?">> >>
  /\ calc.data.params = <<Str("a")>>
  /\ Len(calc.found.rows) = 0

\* the number of conditions a filter value yields: one per operator of an
\* operator object, one otherwise
CondsOf(value) == IF value.ty = "object" THEN Len(value.v) ELSE 1
RECURSIVE CondsFrom(_, _)
CondsFrom(entries, i) ==
  IF i > Len(entries) THEN 0 ELSE CondsOf(entries[i][2]) + CondsFrom(entries, i + 1)
\* the first condition of entry i of the main filters: they come last
MainCond(st, i) == st.where[Len(st.where) - CondsFrom(calc.filters, i) + 1]
\* the aliases the JOIN clauses of the statement declare for a table
JoinAliases(st, table) ==
  {st.joins[j][4] : j \in {n \in 1 .. Len(st.joins) : st.joins[n][3] = table}}
QualifiedBy(st, i, table, column) ==
  /\ \E a \in JoinAliases(st, table) : MainCond(st, i)[1] = a \o "." \o column
  /\ MainCond(st, i)[1] # "t1." \o column
  /\ JoinAliases(st, table) \subseteq {"t2", "t3"}

\* C19: a main-table filter key 'T.c' whose T is the table of a joined
\* relation yields a condition on column c qualified with the alias the
\* JOIN clause of that relation declared (t2, t3, ...), never with t1.
C19_RelationKeyUsesRelationAlias ==
  (/\ calc.fn = "findAll" /\ calc.done
   /\ \E r \in 1 .. Len(calc.relations) :
        IsJoined(calc.relations[r]) /\ TableOf(calc.relations[r]) = "posts") =>
    \A i \in 1 .. Len(calc.filters) :
      (calc.filters[i][1] = "posts.title" /\ ~IsEmptySeq(calc.filters[i][2])) =>
        /\ QualifiedBy(calc.data, i, "posts", "title")
        /\ QualifiedBy(calc.count, i, "posts", "title")

C19_Witness ==
  /\ calc.fn = "findAll" /\ calc.done /\ calc.found.ok
  /\ Len(calc.relations) = 2 /\ IsJoined(calc.relations[1])
  /\ Len(calc.filters) = 2 /\ calc.filters[1] = <<"posts.title", Str("p")>>
  /\ MainCond(calc.data, 1) = <<"t3.title", "=", "?">>
  /\ Len(calc.found.rows) = 1

\* the values a filter value asks to compare with, in the order written
BoundValues(value) ==
  IF value = Null THEN <<>>
  ELSE IF value.ty = "array" THEN value.v
  ELSE IF value.ty = "object"
  THEN SelectSeq([i \in 1 .. Len(value.v) |-> value.v[i][2]], LAMBDA x : x # Null)
  ELSE <<value>>
RECURSIVE ValuesIn(_)
ValuesIn(entries) ==
  IF Len(entries) = 0 THEN <<>>
  ELSE BoundValues(entries[1][2]) \o ValuesIn(Tail(entries))
RECURSIVE RelationValues(_)
\* the values of the filters of the joined relations
RelationValues(rels) ==
  IF Len(rels) = 0 THEN <<>>
  ELSE (IF IsJoined(rels[1]) THEN ValuesIn(RelFilters(rels[1])) ELSE <<>>)
         \o RelationValues(Tail(rels))
RECURSIVE RelationConds(_)
\* the number of conditions of the filters of the joined relations
RelationConds(rels) ==
  IF Len(rels) = 0 THEN 0
  ELSE (IF IsJoined(rels[1]) THEN CondsFrom(RelFilters(rels[1]), 1) ELSE 0)
         + RelationConds(Tail(rels))
\* the search term between wildcards, once per searchable field
SearchPatterns ==
  IF calc.search = Undef THEN <<>>
  ELSE [i \in 1 .. Len(SearchableFields) |-> Str("%" \o calc.search.v \o "%")]
RECURSIVE PlaceholdersIn(_)
\* the number of '?' in a sequence of conditions
PlaceholdersIn(conds) ==
  IF Len(conds) = 0 THEN 0 ELSE NPlace(conds[1]) + PlaceholdersIn(Tail(conds))
\* the text a value would have inside a statement
TextOf(value) == IF value.ty = "number" THEN ToString(value.v) ELSE value.v
\* the statement binds the values in text order: those of the relation
\* filters, then the search patterns, then those of the main filters; none
\* of them is part of its text
BindsInOrder(st) ==
  /\ st.params = RelationValues(calc.relations) \o SearchPatterns \o ValuesIn(calc.filters)
  /\ PlaceholdersIn(st.where) = Len(st.params)
  /\ Len(st.where) = RelationConds(calc.relations)
                       + (IF calc.search = Undef THEN 0 ELSE 1)
                       + CondsFrom(calc.filters, 1)
  /\ PlaceholdersIn(SubSeq(st.where, 1, RelationConds(calc.relations)))
       = Len(RelationValues(calc.relations))
  /\ PlaceholdersIn(SubSeq(st.where, Len(st.where) - CondsFrom(calc.filters, 1) + 1,
                           Len(st.where)))
       = Len(ValuesIn(calc.filters))
  /\ \A i \in 1 .. Len(st.where), k \in 1 .. Len(st.params) :
       TextOf(st.params[k]) \notin Range(st.where[i])

\* C20: findAll passes the filter values and the search term only as bound
\* parameters; the WHERE clause has as many '?' as there are parameters, and
\* the parameters follow the text order: relation filters, search, main
\* filters.
C20_ValuesAreBound ==
  (calc.fn = "findAll" /\ calc.done) =>
    BindsInOrder(calc.data) /\ BindsInOrder(calc.count)

C20_Witness ==
  /\ calc.fn = "findAll" /\ calc.done /\ calc.found.ok
  /\ calc.data.params = <<Str("p"), Str("%a%"), Num(1), Num(2), Str("a")>>
  /\ calc.data.where =
       << <<"t2.title", "=", "?">>, <<"(", "t1.name", "LIKE", "?", ")">>,
          <<"t1.id", "IN", "(?, ?)">>, <<"t1.name", "=", "?">> >>
  /\ Len(calc.found.rows) = 1

\* the second call resolved, deleted nothing and made no cache call other
\* than one key listing that returned empty
SecondIsIdle ==
  /\ calc.second.proc.outcome = "resolved"
  /\ calc.second.cache = calc.first.cache
  /\ Len(calc.second.proc.log) <= 1
  /\ \A i \in 1 .. Len(calc.second.proc.log) :
       calc.second.proc.log[i] = EvKeys(Table \o ":*", TRUE, {})

C22_KeyIgnoresOrder ==
  (/\ calc.fn = "keys" /\ calc.done
   /\ Range(calc.filters1) = Range(calc.filters2)) =>
    calc.key1 = calc.key2 /\ calc.read = NumToString(1)

\* the relations of the call that name their table and their foreign key
JoinedRelations == SelectSeq(calc.relations, IsJoined)
\* the join kind the relation's type stands for
KindFor(type) ==
  IF type = Str("inner") THEN "INNER"
  ELSE IF type = Str("right") THEN "RIGHT"
  ELSE "LEFT"

\* C23: every JOIN clause of findAll has a kind among INNER, LEFT, RIGHT:
\* the relation's type when it is inner, left or right, LEFT when the type
\* is absent or is many.
C23_JoinKinds ==
  (calc.fn = "joins" /\ calc.done) =>
    /\ Len(calc.data.joins) = Len(JoinedRelations)
    /\ \A j \in 1 .. Len(calc.data.joins) :
         /\ calc.data.joins[j][1] \in {"INNER", "LEFT", "RIGHT"}
         /\ calc.data.joins[j][1] = KindFor(GetOr(JoinedRelations[j].v, "type"))

\* the number of select items a relation that is joined accounts for
FragmentsOf(rel) ==
  IF Falsy(GetOr(rel.v, "select")) THEN 1 ELSE Len(GetOr(rel.v, "select").v)
RECURSIVE FragmentsIn(_)
FragmentsIn(rels) ==
  IF Len(rels) = 0 THEN 0 ELSE FragmentsOf(rels[1]) + FragmentsIn(Tail(rels))

\* C24: a relation spec without table or foreignKey is skipped by the whole
\* statement: no alias, no JOIN clause, no filter condition and no SELECT
\* fragment; the other relations get the aliases t2, t3, ... in encounter
\* order.
C24_SkippedRelations ==
  (calc.fn = "joins" /\ calc.done) =>
    /\ Len(calc.data.joins) = Len(JoinedRelations)
    /\ \A j \in 1 .. Len(calc.data.joins) :
         /\ calc.data.joins[j][3] = TableOf(JoinedRelations[j])
         /\ calc.data.joins[j][4] = "t" \o ToString(j + 1)
    /\ Len(calc.data.where) = RelationConds(calc.relations)
    /\ calc.data.params = RelationValues(calc.relations)
    /\ Len(calc.data.select) =
         (IF Len(calc.relations) = 0 THEN 1 ELSE 1 + FragmentsIn(JoinedRelations))

\* the fixed table of comparison tokens
TokenOf(op) ==
  CASE op = "gt" -> ">" [] op = "lt" -> "<" [] op = "gte" -> ">="
    [] op = "lte" -> "<=" [] op = "ne" -> "!=" [] op = "like" -> "LIKE"
    [] op = "ilike" -> "ILIKE" [] OTHER -> "="
\* what follows the column in the fragment of the entry (op, val)
FragmentOf(op, val) ==
  IF val = Null /\ op = "ne" THEN <<"IS", "NOT", "NULL">>
  ELSE IF val = Null THEN <<"IS", "NULL">>
  ELSE <<TokenOf(op), "?">>
\* the operator object the statement was built from
OperatorObject == calc.filters[1][2].v
\* the statement st carries one fragment per entry, and the operands that
\* are not null as its parameters
OperatorsIn(st) ==
  /\ Len(st.where) = Len(OperatorObject)
  /\ \A i \in 1 .. Len(OperatorObject) :
       Tail(st.where[i]) = FragmentOf(OperatorObject[i][1], OperatorObject[i][2])
  /\ st.params = SelectSeq(ValuesOf(OperatorObject), LAMBDA x : x # Null)

\* C25: every entry (op, val) of an operator object, in findAll and in count
\* alike, takes its token from the fixed table ('=' when unrecognized); a
\* null operand yields IS NOT NULL for ne and IS NULL otherwise, with no
\* parameter; any other operand yields '<col> <token> ?' and is appended to
\* the parameters
C25_OperatorObjects ==
  calc.done =>
    /\ calc.fn = "findAll" => OperatorsIn(calc.count) /\ OperatorsIn(calc.data)
    /\ calc.fn = "count" => OperatorsIn(calc.count)

\* the backend holds a record of the identifier
HasRecord(id) == \E r \in db : r.id = id
\* delete(id, true)
DeleteReturning(pr) == pr.kind = "delete" /\ pr.a.returnRecord
\* the calls the invalidation is made of
Invalidations(pr) == EventsOf(pr, "cache.del") \cup EventsOf(pr, "cache.keys")

StaleKeys ==
  {k \in DOMAIN cache : k.operation = "findById" /\ JSONparse(cache[k]) \notin db}
\* the step removes or replaces the entry of key k
Dropped(k) == k \notin DOMAIN cache' \/ cache'[k] # cache[k]
\* the step is a cache.del of the writer's invalidation
WriterDeletes ==
  /\ Len(proc'[Writer].log) = Len(proc[Writer].log) + 1
  /\ proc'[Writer].log[Len(proc'[Writer].log)].ev = "cache.del"
\* the step is the cache.set of a findById whose cache.get had failed
ReaderSets ==
  /\ Len(proc'[Reader].log) = Len(proc[Reader].log) + 1
  /\ proc'[Reader].log[Len(proc'[Reader].log)].ev = "cache.set"
  /\ ~proc[Reader].log[1].ok
\* the step is the reader's cache.get under key k, and it succeeds
ReaderGets(k) ==
  /\ proc[Reader].pc = "fbi_get" /\ proc[Reader].key = k
  /\ Len(proc'[Reader].log) = 1 /\ proc'[Reader].log[1].ok

\* C27: concurrent callers are neither locked nor coalesced, so an entry
\* that holds a record as it was before a write (a stale entry) is reachable;
\* once it is there, every findById under its key is served the stale record
\* without a backend statement, and the entry goes only when it expires or
\* when the invalidation of a write deletes it (or, after a failed cache
\* read, when the findById that suffered it stores what the backend holds).
C27_StaleEntryServed ==
  [][\A k \in StaleKeys :
       /\ Dropped(k) => (proc' = proc \/ WriterDeletes \/ ReaderSets)
       /\ (Dropped(k) /\ faults' = 0) => (proc' = proc \/ WriterDeletes)
       /\ ReaderGets(k) =>
            /\ Settled(proc'[Reader]) /\ proc'[Reader].outcome = "resolved"
            /\ proc'[Reader].result = JSONparse(cache[k])
            /\ DbEvents(proc'[Reader]) = {}]_vars

\* no call has failed, the update has completed, and a later findById was
\* served from the cache a record that the backend no longer holds
C27_Witness ==
  /\ DOMAIN proc = {Writer, Reader}
  /\ faults = 0
  /\ proc[Writer].kind = "update" /\ Settled(proc[Writer])
  /\ proc[Writer].outcome = "resolved"
  /\ proc[Reader].kind = "findById" /\ Settled(proc[Reader]) /\ CacheHit(proc[Reader])
  /\ proc[Reader].result \notin db
  /\ proc[Reader].key \in StaleKeys

\* C28: in withTransaction with caching, the table cache is invalidated only
\* after the backend has committed: every cache call of the invalidation
\* comes after a commit that succeeded, so that no invalidation has finished
\* while the writes are uncommitted, and none was made when the commit fails.
C28_InvalidateAfterCommit ==
  \A p \in DOMAIN proc :
    LET pr == proc[p] IN
      pr.kind = "withTransaction" =>
        \A i \in Invalidations(pr) :
          \E j \in EventsOf(pr, "tx.commit") : j < i /\ pr.log[j].ok

\* the key is of a findAll of the model of users naming the table posts in
\* its relations
JoinsRelTable(k) ==
  /\ k.table = Table /\ k.operation = "findAll"
  /\ \E i \in 1 .. Len(k.args.json) :
       /\ k.args.json[i][1] = "relations"
       /\ k.args.json[i][2].ty = "array"
       /\ \E j \in 1 .. Len(k.args.json[i][2].v) :
            GetOr(k.args.json[i][2].v[j].v, "table") = Str(RelTable)
\* the step is a create, update or delete through the model of posts
RelWritten == calc'.writes = calc.writes + 1

\* C29: two models of one ORM share its cache, and findAll of the first
\* joins the table of the second: after a successful create, update or
\* delete through the second, the next findAll of the first with the same
\* arguments is not served a cached result computed before the write; that
\* is, the write leaves no such result of the first model in the cache.
C29_WriteInvalidatesJoinedResults ==
  [][RelWritten => \A k \in DOMAIN cache' : ~JoinsRelTable(k)]_vars

\* C30: the cache key determines the query: two findAll calls that compute
\* the same cache key generate the same COUNT and DATA statements, also
\* when made through two models of one table that differ in defaultLimit
\* or maxLimit, and for a legacy call against a structured call whose
\* unused options are null.
C30_KeyDeterminesQuery ==
  (calc.done /\ calc.calls[1].key = calc.calls[2].key) =>
    calc.calls[1].statements = calc.calls[2].statements

====
